---------------------------- MODULE Spec2Model ----------------------------
(***************************************************************************)
(* Model of the crop rotation recommender of src/ml/pipeline.py            *)
(* (class CropRotationRecommender): load_data builds the lookup tables     *)
(* suit_by_soil, bias_by_crop and bands from the soil/crop dataset, and    *)
(* recommend_next_crop scores, ranks and normalises the candidate crops of *)
(* a soil for one query.                                                   *)
(*                                                                         *)
(* Strings are sequences of one-character strings, so that strip(),        *)
(* title() and sorted() are computed and not assumed.  Scores are Python   *)
(* floats (IEEE-754 binary64, round to nearest even): a float is a record  *)
(* [s, m, e] of value (-1)^s * m * 2^e whose significand m is a natural    *)
(* number of exactly 53 bits, kept as a sequence of limbs because it does  *)
(* not fit the integers of the model checker.                              *)
(***************************************************************************)
EXTENDS Integers, Sequences, FiniteSets, TLC

(***************************************************************************)
(* Natural numbers of any size: little-endian sequences of limbs in        *)
(* 0 .. LimbBase-1 without leading zero limbs (zero is << >>).             *)
(***************************************************************************)
LimbBase == 2^20

RECURSIVE BTrim(_)
BTrim(a) ==
    IF a = << >> THEN << >>
    ELSE IF a[Len(a)] = 0 THEN BTrim(SubSeq(a, 1, Len(a) - 1))
    ELSE a

BLimb(a, i) == IF 1 <= i /\ i <= Len(a) THEN a[i] ELSE 0

BMaxLen(a, b) == IF Len(a) >= Len(b) THEN Len(a) ELSE Len(b)

RECURSIVE BAddFrom(_, _, _, _)
BAddFrom(a, b, i, carry) ==
    IF i > BMaxLen(a, b)
    THEN IF carry = 0 THEN << >> ELSE << carry >>
    ELSE LET t == BLimb(a, i) + BLimb(b, i) + carry
         IN  << t % LimbBase >> \o BAddFrom(a, b, i + 1, t \div LimbBase)

BAdd(a, b) == BAddFrom(a, b, 1, 0)

\* a - b for a >= b
RECURSIVE BSubFrom(_, _, _, _)
BSubFrom(a, b, i, borrow) ==
    IF i > Len(a) THEN << >>
    ELSE LET t == BLimb(a, i) - BLimb(b, i) - borrow
         IN  IF t < 0
             THEN << t + LimbBase >> \o BSubFrom(a, b, i + 1, 1)
             ELSE << t >> \o BSubFrom(a, b, i + 1, 0)

BSub(a, b) == BTrim(BSubFrom(a, b, 1, 0))

\* -1, 0 or 1 as a < b, a = b or a > b, comparing from limb i downwards
RECURSIVE BCmpFrom(_, _, _)
BCmpFrom(a, b, i) ==
    IF i = 0 THEN 0
    ELSE IF a[i] < b[i] THEN -1
    ELSE IF a[i] > b[i] THEN 1
    ELSE BCmpFrom(a, b, i - 1)

BCmp(a, b) ==
    IF Len(a) < Len(b) THEN -1
    ELSE IF Len(a) > Len(b) THEN 1
    ELSE BCmpFrom(a, b, Len(a))

\* a * k for a small natural k (k < 2048)
RECURSIVE BMulFrom(_, _, _, _)
BMulFrom(a, k, i, carry) ==
    IF i > Len(a)
    THEN IF carry = 0 THEN << >> ELSE << carry >>
    ELSE LET t == a[i] * k + carry
         IN  << t % LimbBase >> \o BMulFrom(a, k, i + 1, t \div LimbBase)

BMulSmall(a, k) == BTrim(BMulFrom(a, k, 1, 0))

\* a * 2^k
BShl(a, k) ==
    LET w == k \div 20
        b == k % 20
    IN  BTrim([i \in 1 .. (Len(a) + w + 1) |->
                 (BLimb(a, i - w) % 2^(20 - b)) * 2^b
                 + (BLimb(a, i - w - 1) \div 2^(20 - b))])

\* floor(a / 2^k)
BShr(a, k) ==
    LET w == k \div 20
        b == k % 20
    IN  BTrim([i \in 1 .. (Len(a) - w) |->
                 (a[i + w] \div 2^b) + (BLimb(a, i + w + 1) % 2^b) * 2^(20 - b)])

\* bit j of a (bit 0 is the lowest), and whether the bits below bit j are all 0
BBit(a, j) == (BLimb(a, j \div 20 + 1) \div 2^(j % 20)) % 2

BLowZero(a, j) ==
    /\ \A i \in 1 .. (j \div 20) : BLimb(a, i) = 0
    /\ BLimb(a, j \div 20 + 1) % 2^(j % 20) = 0

RECURSIVE IntBits(_)
IntBits(n) == IF n = 0 THEN 0 ELSE 1 + IntBits(n \div 2)

BBitLen(a) == IF a = << >> THEN 0 ELSE 20 * (Len(a) - 1) + IntBits(a[Len(a)])

\* a natural below LimbBase as a limb sequence, and back
BFromInt(n) == IF n = 0 THEN << >> ELSE << n >>

BToInt(a) == IF a = << >> THEN 0 ELSE a[1]

(***************************************************************************)
(* Python floats.  FZero is 0.0; a non-zero float has BBitLen(m) = 53.     *)
(* FRound is the rounding every float operation ends with: the exact value *)
(* m * 2^e (plus a non-zero remainder below the last bit of m when sticky) *)
(* rounded to 53 significant bits, ties to even.                           *)
(***************************************************************************)
FZero == [s |-> 0, m |-> << >>, e |-> 0]

\* q, or q + 1 when the dropped bits round up (ties to even)
BRoundPick(q, half, below) ==
    IF half /\ (below \/ (q # << >> /\ q[1] % 2 = 1)) THEN BAdd(q, << 1 >>) ELSE q

\* m / 2^k rounded to an integer, ties to even; sticky says that the exact
\* value has a non-zero remainder below the lowest bit of m
BRoundShift(m, k, sticky) ==
    IF k = 0 THEN m
    ELSE BRoundPick(BShr(m, k), BBit(m, k - 1) = 1, sticky \/ ~BLowZero(m, k - 1))

\* a rounded significand r of 53 bits, or of 54 when the rounding carried
FRenorm(s, r, e) ==
    IF BBitLen(r) = 54 THEN [s |-> s, m |-> BShr(r, 1), e |-> e + 1]
    ELSE [s |-> s, m |-> r, e |-> e]

FRoundBits(s, m, e, sticky, n) ==
    IF n <= 53 THEN [s |-> s, m |-> BShl(m, 53 - n), e |-> e - (53 - n)]
    ELSE FRenorm(s, BRoundShift(m, n - 53, sticky), e + (n - 53))

FRound(s, m, e, sticky) ==
    IF m = << >> THEN FZero ELSE FRoundBits(s, m, e, sticky, BBitLen(m))

\* the float of a small integer literal such as 100 or -1.0
FInt(n) ==
    IF n < 0 THEN FRound(1, BFromInt(-n), 0, FALSE)
    ELSE FRound(0, BFromInt(n), 0, FALSE)

FMinExp(x, y) ==
    IF x.m = << >> THEN y.e
    ELSE IF y.m = << >> THEN x.e
    ELSE IF x.e <= y.e THEN x.e ELSE y.e

\* the significand of x at exponent e <= x.e
FAlign(x, e) == IF x.m = << >> THEN << >> ELSE BShl(x.m, x.e - e)

\* the sum of the signed magnitudes a and b, both at exponent e
FAddMag(sx, a, sy, b, e) ==
    IF sx = sy THEN FRound(sx, BAdd(a, b), e, FALSE)
    ELSE IF BCmp(a, b) >= 0 THEN FRound(sx, BSub(a, b), e, FALSE)
    ELSE FRound(sy, BSub(b, a), e, FALSE)

FAddAt(x, y, e) == FAddMag(x.s, FAlign(x, e), y.s, FAlign(y, e), e)

\* x + y
FAdd(x, y) == FAddAt(x, y, FMinExp(x, y))

\* x - y
FSub(x, y) == FAdd(x, IF y.m = << >> THEN y ELSE [y EXCEPT !.s = 1 - y.s])

FCmpMag(x, y, c) ==
    IF x.s = 0 /\ y.s = 0 THEN c
    ELSE IF x.s = 1 /\ y.s = 1 THEN -c
    ELSE IF x.m = << >> /\ y.m = << >> THEN 0
    ELSE IF x.s = 1 THEN -1 ELSE 1

FCmpAt(x, y, e) == FCmpMag(x, y, BCmp(FAlign(x, e), FAlign(y, e)))

\* -1, 0 or 1 as x < y, x = y or x > y
FCmp(x, y) == IF x = y THEN 0 ELSE FCmpAt(x, y, FMinExp(x, y))

FLess(x, y) == FCmp(x, y) < 0

FLeq(x, y) == FCmp(x, y) <= 0

\* long division in digits of 10 bits: k more digits of q + r / d, for r < d
\* and a divisor d of exactly 53 bits.  The digit is at most digit, which
\* DigitEstimate takes from the leading bits, and is found by stepping down
\* while d * digit (prod) exceeds the remainder r2 = r * 2^10.
RECURSIVE BDivDigits(_, _, _, _)
RECURSIVE BDivFix(_, _, _, _, _, _)
BDivFix(q, r2, d, k, digit, prod) ==
    IF BCmp(prod, r2) > 0
    THEN BDivFix(q, r2, d, k, digit - 1, BMulSmall(d, digit - 1))
    ELSE BDivDigits(BAdd(BMulSmall(q, 1024), BFromInt(digit)), BSub(r2, prod), d, k - 1)

DigitBound(top, d3) == IF (top + 1) \div d3 > 1023 THEN 1023 ELSE (top + 1) \div d3

DigitEstimate(r2, d) == DigitBound(BLimb(r2, 4) * LimbBase + BLimb(r2, 3), d[3])

BDivDigit(q, r2, d, k, digit) == BDivFix(q, r2, d, k, digit, BMulSmall(d, digit))

BDivDigits(q, r, d, k) ==
    IF k = 0 \/ Len(q) > 4 THEN [q |-> q, r |-> r]
    ELSE BDivDigit(q, BMulSmall(r, 1024), d, k, DigitEstimate(BMulSmall(r, 1024), d))

FDivQuot(x, y, d) == FRound((x.s + y.s) % 2, d.q, x.e - y.e - 60, d.r # << >>)

\* x / y for y # 0: the quotient of the significands to 60 bits and a sticky bit
FDiv(x, y) ==
    IF x.m = << >> THEN FZero
    ELSE IF x.m = y.m THEN FRound((x.s + y.s) % 2, << 1 >>, x.e - y.e, FALSE)
    ELSE IF BCmp(x.m, y.m) >= 0
    THEN FDivQuot(x, y, BDivDigits(<< 1 >>, BSub(x.m, y.m), y.m, 6))
    ELSE FDivQuot(x, y, BDivDigits(<< >>, x.m, y.m, 6))

\* x * k for a small integer k >= 0: the exact product, rounded
FMulInt(x, k) == FRound(x.s, BMulSmall(x.m, k), x.e, FALSE)

\* a decimal literal n / 10^d (0.3 is FDec(3, 10)): the float nearest to it
FDec(n, p) == FDiv(FInt(n), FInt(p))

\* Python's round(x) of a float of magnitude below 2^20: the nearest integer,
\* ties to even
PyRound(x) ==
    IF x.m = << >> THEN 0
    ELSE IF x.e >= 0
    THEN (IF x.s = 1 THEN -BToInt(BShl(x.m, x.e)) ELSE BToInt(BShl(x.m, x.e)))
    ELSE (IF x.s = 1 THEN -BToInt(BRoundShift(x.m, -x.e, FALSE))
          ELSE BToInt(BRoundShift(x.m, -x.e, FALSE)))

(***************************************************************************)
(* Python strings: sequences of one-character strings over the letters and *)
(* the space.  CharOrd is the code point, which orders strings in sorted(). *)
(***************************************************************************)
UpperChars == << "A", "B", "C", "D", "E", "F", "G", "H", "I", "J", "K", "L", "M",
                 "N", "O", "P", "Q", "R", "S", "T", "U", "V", "W", "X", "Y", "Z" >>

LowerChars == << "a", "b", "c", "d", "e", "f", "g", "h", "i", "j", "k", "l", "m",
                 "n", "o", "p", "q", "r", "s", "t", "u", "v", "w", "x", "y", "z" >>

Range(f) == { f[i] : i \in DOMAIN f }

IndexIn(seq, c) == CHOOSE i \in DOMAIN seq : seq[i] = c

UpperSet == Range(UpperChars)

LowerSet == Range(LowerChars)

\* the code points of the characters
CodePoint ==
    [c \in UpperSet \cup LowerSet \cup {" "} |->
        IF c \in UpperSet THEN 64 + IndexIn(UpperChars, c)
        ELSE IF c \in LowerSet THEN 96 + IndexIn(LowerChars, c)
        ELSE 32]

UpperOf == [c \in LowerSet |-> UpperChars[IndexIn(LowerChars, c)]]

LowerOf == [c \in UpperSet |-> LowerChars[IndexIn(UpperChars, c)]]

IsUpper(c) == c \in UpperSet

IsLower(c) == c \in LowerSet

CharOrd(c) == CodePoint[c]

ToUpper(c) == IF IsLower(c) THEN UpperOf[c] ELSE c

ToLower(c) == IF IsUpper(c) THEN LowerOf[c] ELSE c

\* str.strip(): the string without its leading and trailing whitespace
Strip(str) ==
    LET inked == { i \in DOMAIN str : str[i] # " " }
    IN  IF inked = {} THEN << >>
        ELSE SubSeq(str, CHOOSE i \in inked : \A j \in inked : i <= j,
                         CHOOSE i \in inked : \A j \in inked : j <= i)

\* str.title(): a letter that follows a letter is lowercased, any other
\* letter is uppercased
Title(str) ==
    [i \in DOMAIN str |->
        IF i > 1 /\ (IsUpper(str[i - 1]) \/ IsLower(str[i - 1]))
        THEN ToLower(str[i])
        ELSE ToUpper(str[i])]

\* the key normalisation of load_data and of recommend_next_crop
Normalize(str) == Title(Strip(str))

\* a < b in Python's string order
RECURSIVE StrLess(_, _)
StrLess(a, b) ==
    IF b = << >> THEN FALSE
    ELSE IF a = << >> THEN TRUE
    ELSE IF CharOrd(Head(a)) < CharOrd(Head(b)) THEN TRUE
    ELSE IF CharOrd(Head(a)) > CharOrd(Head(b)) THEN FALSE
    ELSE StrLess(Tail(a), Tail(b))

\* sorted(S) of a set of strings
RECURSIVE SortedStrings(_)
SortedStrings(S) ==
    IF S = {} THEN << >>
    ELSE LET least == CHOOSE a \in S : \A b \in S \ {a} : StrLess(a, b)
         IN  << least >> \o SortedStrings(S \ {least})

(***************************************************************************)
(* Python's None and dict.get: an optional value is << >> (None) or << v >> *)
(***************************************************************************)
None == << >>

Some(v) == << v >>

Get(d, key) == IF key \in DOMAIN d THEN Some(d[key]) ELSE None

EmptyDict == << >>

(***************************************************************************)
(* The soil/crop dataset: a frame is the set of its column names (as       *)
(* load_data renames them) and the sequence of its rows.  Soil and crop    *)
(* names are spelled as the file spells them, before normalisation.        *)
(***************************************************************************)
Row(soil, crop, n, p, k, t, h, m) ==
    [Soil_Type |-> soil, Crop_Type |-> crop,
     Nitrogen |-> n, Phosphorous |-> p, Potassium |-> k,
     Temparature |-> t, Humidity |-> h, Moisture |-> m]

Frame(rows) ==
    [columns |-> {"Soil_Type", "Crop_Type", "Nitrogen", "Phosphorous", "Potassium",
                  "Temparature", "Humidity", "Moisture"},
     rows |-> rows]

\* the frame without one of its columns
Without(df, column) == [df EXCEPT !.columns = @ \ {column}]

\* lines 281-282: Soil_Type and Crop_Type stripped and title-cased
NormalizedFrame(df) ==
    [df EXCEPT !.rows =
        [i \in DOMAIN df.rows |->
            [df.rows[i] EXCEPT !.Soil_Type = Normalize(@),
                               !.Crop_Type = Normalize(@)]]]

RowsOf(df) == Range(df.rows)

CropsOf(df) == { r.Crop_Type : r \in RowsOf(df) }

\* a variant of lines 287-289 without the groupby: every soil gets the crops of
\* the whole frame
SuitBySoilUngrouped(df) ==
    [soil \in { r.Soil_Type : r \in RowsOf(df) } |->
        SortedStrings({ r.Crop_Type : r \in RowsOf(df) })]

\* lines 287-289: groupby('Soil_Type')['Crop_Type'] -> sorted(unique())
SuitBySoil(df) ==
    [soil \in { r.Soil_Type : r \in RowsOf(df) } |->
        SortedStrings({ r.Crop_Type : r \in { x \in RowsOf(df) : x.Soil_Type = soil } })]

\* a variant of lines 293-295 that tests phosphorous before nitrogen
NutrientBiasPhosphorousFirst(r) ==
    IF r.Phosphorous >= r.Nitrogen /\ r.Phosphorous >= r.Potassium THEN "P_high"
    ELSE IF r.Nitrogen >= r.Phosphorous /\ r.Nitrogen >= r.Potassium THEN "N_high"
    ELSE "K_high"

\* a variant of lines 293-295 with strict comparisons, in which potassium takes
\* every tie
NutrientBiasStrict(r) ==
    IF r.Nitrogen > r.Phosphorous /\ r.Nitrogen > r.Potassium THEN "N_high"
    ELSE IF r.Phosphorous > r.Nitrogen /\ r.Phosphorous > r.Potassium THEN "P_high"
    ELSE "K_high"

\* a variant of lines 293-295 that compares nitrogen with phosphorous only
NutrientBiasWithoutPotassium(r) ==
    IF r.Nitrogen >= r.Phosphorous THEN "N_high" ELSE "P_high"

\* lines 293-295: the label of one row
NutrientBias(r) ==
    IF r.Nitrogen >= r.Phosphorous /\ r.Nitrogen >= r.Potassium THEN "N_high"
    ELSE IF r.Phosphorous >= r.Nitrogen /\ r.Phosphorous >= r.Potassium THEN "P_high"
    ELSE "K_high"

BiasLabels == {"N_high", "P_high", "K_high"}

\* how many rows of the crop carry the label
LabelCount(df, crop, label) ==
    Cardinality({ i \in DOMAIN df.rows :
                    /\ df.rows[i].Crop_Type = crop
                    /\ NutrientBias(df.rows[i]) = label })

\* a variant of line 299 with idxmin: the labels value_counts() puts lowest
LeastLabels(df, crop) ==
    { l \in BiasLabels :
        /\ LabelCount(df, crop, l) > 0
        /\ \A o \in BiasLabels :
              LabelCount(df, crop, o) > 0 => LabelCount(df, crop, l) <= LabelCount(df, crop, o) }

\* the labels value_counts() puts highest for the crop
ModeLabels(df, crop) ==
    { l \in BiasLabels :
        /\ LabelCount(df, crop, l) > 0
        /\ \A o \in BiasLabels : LabelCount(df, crop, o) <= LabelCount(df, crop, l) }

\* lines 298-300: groupby('Crop_Type')['nutrient_bias'] -> value_counts().idxmax().
\* Between labels of equal count the order of value_counts() is not fixed by
\* the code, so every choice among the most frequent labels is an outcome.
TiedCrops(df) == { c \in CropsOf(df) : Cardinality(ModeLabels(df, c)) > 1 }

\* the table that takes g's label for the crops in tied
BiasChoice(df, tied, g) ==
    [c \in CropsOf(df) |->
        IF c \in tied THEN g[c] ELSE CHOOSE l \in ModeLabels(df, c) : TRUE]

BiasChoicesOver(df, tied) ==
    { BiasChoice(df, tied, g) :
        g \in { h \in [tied -> BiasLabels] : \A c \in tied : h[c] \in ModeLabels(df, c) } }

BiasByCropChoices(df) == BiasChoicesOver(df, TiedCrops(df))

SetMin(S) == CHOOSE x \in S : \A y \in S : x <= y

SetMax(S) == CHOOSE x \in S : \A y \in S : x >= y

\* a variant of lines 303-307 that gives a band only to the crops observed on
\* more than one row
BandsOfRepeatedCrops(df) ==
    [crop \in { c \in CropsOf(df) :
                  Cardinality({ i \in DOMAIN df.rows : df.rows[i].Crop_Type = c }) > 1 } |->
        LET rows == { r \in RowsOf(df) : r.Crop_Type = crop }
        IN  [temp_min  |-> SetMin({ r.Temparature : r \in rows }),
             temp_max  |-> SetMax({ r.Temparature : r \in rows }),
             moist_min |-> SetMin({ r.Moisture : r \in rows }),
             moist_max |-> SetMax({ r.Moisture : r \in rows }),
             hum_min   |-> SetMin({ r.Humidity : r \in rows }),
             hum_max   |-> SetMax({ r.Humidity : r \in rows })]]

\* lines 303-307: groupby('Crop_Type') -> min and max of each reading
Bands(df) ==
    [crop \in CropsOf(df) |->
        LET rows == { r \in RowsOf(df) : r.Crop_Type = crop }
        IN  [temp_min  |-> SetMin({ r.Temparature : r \in rows }),
             temp_max  |-> SetMax({ r.Temparature : r \in rows }),
             moist_min |-> SetMin({ r.Moisture : r \in rows }),
             moist_max |-> SetMax({ r.Moisture : r \in rows }),
             hum_min   |-> SetMin({ r.Humidity : r \in rows }),
             hum_max   |-> SetMax({ r.Humidity : r \in rows })]]

(***************************************************************************)
(* recommend_next_crop: the scoring of one candidate, the ranking and the  *)
(* normalisation, as operators of the tables the call reads.               *)
(***************************************************************************)
FamilyPenalty == FInt(-1)

RotationBonus == FDec(5, 10)

LegumeBonus == FDec(3, 10)

TempBonus == FDec(3, 10)

MoistBonus == FDec(3, 10)

HumBonus == FDec(2, 10)

\* a variant of the threshold of line 369 that is wider than one tenth
NearEqualRangeAboveOneTenth == FDec(15, 100)

NearEqualRange == FDec(1, 100)

MinSuitability == 50

\* a variant of line 332 without the penalty
FamPenaltyAbsent(cand, current_crop) == FZero

\* line 332
FamPenalty(cand, current_crop) ==
    IF cand # current_crop THEN FZero ELSE FamilyPenalty

\* a variant of lines 336-340 in which the legume bonus is given only when the
\* rotation bonus is not (elif instead of if)
RotBonusExclusive(cand, cur_bias, cand_bias, n, legumeSet) ==
    IF cur_bias # None /\ cand_bias # None /\ cand_bias # cur_bias THEN RotationBonus
    ELSE IF n < 15 /\ cand \in legumeSet THEN LegumeBonus
    ELSE FZero

\* a variant of lines 336-337 that takes an unknown bias of the current crop
\* for a bias that differs from every known one
RotBonusUnknownDiffers(cand, cur_bias, cand_bias, n, legumeSet) ==
    LET rot_bonus == IF cand_bias # None /\ cand_bias # cur_bias
                     THEN RotationBonus ELSE FZero
    IN  IF n < 15 /\ cand \in legumeSet THEN FAdd(rot_bonus, LegumeBonus) ELSE rot_bonus

\* lines 336-340: None is falsy, a label is truthy
RotBonus(cand, cur_bias, cand_bias, n, legumeSet) ==
    LET rot_bonus == IF cur_bias # None /\ cand_bias # None /\ cand_bias # cur_bias
                     THEN RotationBonus ELSE FZero
    IN  IF n < 15 /\ cand \in legumeSet THEN FAdd(rot_bonus, LegumeBonus) ELSE rot_bonus

\* a variant of lines 343-351 with open intervals
EnvScoreExclusive(b, temp, moisture, humidity) ==
    IF b = None THEN FZero
    ELSE LET band == b[1]
             e1 == IF band.temp_min < temp /\ temp < band.temp_max
                   THEN FAdd(FZero, TempBonus) ELSE FZero
             e2 == IF band.moist_min < moisture /\ moisture < band.moist_max
                   THEN FAdd(e1, MoistBonus) ELSE e1
         IN  IF band.hum_min < humidity /\ humidity < band.hum_max
             THEN FAdd(e2, HumBonus) ELSE e2

\* lines 343-351: b is bands.get(cand)
EnvScore(b, temp, moisture, humidity) ==
    IF b = None THEN FZero
    ELSE LET band == b[1]
             e1 == IF band.temp_min <= temp /\ temp <= band.temp_max
                   THEN FAdd(FZero, TempBonus) ELSE FZero
             e2 == IF band.moist_min <= moisture /\ moisture <= band.moist_max
                   THEN FAdd(e1, MoistBonus) ELSE e1
         IN  IF band.hum_min <= humidity /\ humidity <= band.hum_max
             THEN FAdd(e2, HumBonus) ELSE e2

\* line 353
TotalScore(fam_penalty, rot_bonus, env_score) ==
    FAdd(FAdd(fam_penalty, rot_bonus), env_score)

\* the body of the loop of lines 330-354 for one candidate
ScoreCandidate(cand, current_crop, cur_bias, cand_bias, b, q, legumeSet) ==
    [crop  |-> cand,
     score |-> TotalScore(FamPenalty(cand, current_crop),
                          RotBonus(cand, cur_bias, cand_bias, q.n, legumeSet),
                          EnvScore(b, q.temp, q.moisture, q.humidity))]

InsertAt(sorted, x, k) ==
    SubSeq(sorted, 1, k) \o << x >> \o SubSeq(sorted, k + 1, Len(sorted))

\* a variant of the sort that is not stable: x goes in front of the entries of
\* equal score
InsertDescBeforeTies(sorted, x) ==
    InsertAt(sorted, x,
             Cardinality({ i \in DOMAIN sorted : FLess(x.score, sorted[i].score) }))

\* x put into a sequence sorted by score descending, behind the entries that
\* score at least as much
InsertDesc(sorted, x) ==
    InsertAt(sorted, x,
             Cardinality({ i \in DOMAIN sorted : FLeq(x.score, sorted[i].score) }))

\* sorted(scored, key=score, reverse=True): stable, so entries of equal score
\* keep the order they have in scored
RECURSIVE SortedDesc(_)
SortedDesc(scored) ==
    IF scored = << >> THEN << >>
    ELSE InsertDesc(SortedDesc(SubSeq(scored, 1, Len(scored) - 1)), scored[Len(scored)])

\* a variant of the slice that keeps one entry more: seq[:top_k + 1]
SliceOneMore(seq, top_k) ==
    SubSeq(seq, 1, IF top_k + 1 < Len(seq) THEN top_k + 1 ELSE Len(seq))

\* seq[:top_k]
Slice(seq, top_k) ==
    LET stop == IF top_k >= 0
                THEN (IF top_k < Len(seq) THEN top_k ELSE Len(seq))
                ELSE (IF Len(seq) + top_k > 0 THEN Len(seq) + top_k ELSE 0)
    IN  SubSeq(seq, 1, stop)

\* a variant of line 357 that cuts the candidate list to top_k before sorting
TopRecommendationsCutFirst(scored, top_k) == SortedDesc(Slice(scored, top_k))

\* line 357
TopRecommendations(scored, top_k) == Slice(SortedDesc(scored), top_k)

\* lines 364-365: max() and min() of the scores of recs[i ..], best so far
RECURSIVE MaxScoreFrom(_, _, _)
MaxScoreFrom(recs, i, best) ==
    IF i > Len(recs) THEN best
    ELSE IF FLess(best, recs[i].score) THEN MaxScoreFrom(recs, i + 1, recs[i].score)
    ELSE MaxScoreFrom(recs, i + 1, best)

RECURSIVE MinScoreFrom(_, _, _)
MinScoreFrom(recs, i, best) ==
    IF i > Len(recs) THEN best
    ELSE IF FLess(recs[i].score, best) THEN MinScoreFrom(recs, i + 1, recs[i].score)
    ELSE MinScoreFrom(recs, i + 1, best)

MaxScore(recs) == MaxScoreFrom(recs, 2, recs[1].score)

MinScore(recs) == MinScoreFrom(recs, 2, recs[1].score)

IntMax(a, b) == IF a >= b THEN a ELSE b

\* a variant of lines 372 and 376 without the floor: 100 - idx * 10
RankSuitabilityUnfloored(idx) == 100 - idx * 10

\* lines 372 and 376: the suitability of rank idx (from 0) when the scores are
\* near-equal
RankSuitability(idx) == IntMax(100 - idx * 10, MinSuitability)

\* a variant of lines 387-389 without the floor of line 389
NormalSuitabilityUnfloored(score, min_score, score_range) ==
    PyRound(FMulInt(FDiv(FSub(score, min_score), score_range), 100))

\* a variant of lines 387-389 that measures the distance from the best score
NormalSuitabilityFromBest(score, min_score, score_range) ==
    IntMax(100 - PyRound(FMulInt(FDiv(FSub(score, min_score), score_range), 100)),
           MinSuitability)

\* lines 387-389
NormalSuitability(score, min_score, score_range) ==
    IntMax(PyRound(FMulInt(FDiv(FSub(score, min_score), score_range), 100)),
           MinSuitability)

RECURSIVE JoinReasons(_)
JoinReasons(reasons) ==
    IF Len(reasons) = 1 THEN reasons[1]
    ELSE reasons[1] \o "; " \o JoinReasons(Tail(reasons))

\* a variant of lines 401-414 that appends the legume clause first
GetRecommendationReasonLegumeFirst(recommended_crop, current_crop, current_bias, recommended_bias, legumeSet) ==
    LET r1 == IF recommended_crop # current_crop
              THEN << "Crop rotation benefit" >> ELSE << >>
        r2 == IF /\ current_bias # None
                 /\ recommended_bias # None
                 /\ current_bias # recommended_bias
              THEN << "Different nutrient requirements" >> ELSE << >>
        r3 == IF recommended_crop \in legumeSet
              THEN << "Nitrogen fixing properties" >> ELSE << >>
        reasons == r3 \o r1 \o r2
    IN  IF reasons # << >> THEN JoinReasons(reasons) ELSE "Suitable for soil type"

\* lines 401-414: _get_recommendation_reason
GetRecommendationReason(recommended_crop, current_crop, current_bias, recommended_bias, legumeSet) ==
    LET r1 == IF recommended_crop # current_crop
              THEN << "Crop rotation benefit" >> ELSE << >>
        r2 == IF /\ current_bias # None
                 /\ recommended_bias # None
                 /\ current_bias # recommended_bias
              THEN << "Different nutrient requirements" >> ELSE << >>
        r3 == IF recommended_crop \in legumeSet
              THEN << "Nitrogen fixing properties" >> ELSE << >>
        reasons == r1 \o r2 \o r3
    IN  IF reasons # << >> THEN JoinReasons(reasons) ELSE "Suitable for soil type"

\* lines 370-379 and 385-396: one entry of the list; reason_bias and
\* benefits_bias are the two reads of bias_by_crop.get(crop)
Entry(rec, idx, min_score, score_range, near_equal, current_crop, cur_bias, reason_bias, benefits_bias, legumeSet) ==
    [crop |-> rec.crop,
     score |-> rec.score,
     suitability_score |->
         IF near_equal THEN RankSuitability(idx)
         ELSE NormalSuitability(rec.score, min_score, score_range),
     reason |-> GetRecommendationReason(rec.crop, current_crop, cur_bias, reason_bias,
                                        legumeSet),
     benefits |-> GetRecommendationReason(rec.crop, current_crop, cur_bias,
                                          benefits_bias, legumeSet)]

\* lines 368-399: the entries of the list, given min_score, score_range and
\* whether score_range < 0.01
Entries(recs, min_score, score_range, near_equal, current_crop, cur_bias, biasTable, legumeSet) ==
    [i \in DOMAIN recs |->
        Entry(recs[i], i - 1, min_score, score_range, near_equal, current_crop, cur_bias,
              Get(biasTable, recs[i].crop), Get(biasTable, recs[i].crop), legumeSet)]

NormalizedOver(recs, min_score, score_range, current_crop, cur_bias, biasTable, legumeSet) ==
    Entries(recs, min_score, score_range, FLess(score_range, NearEqualRange),
            current_crop, cur_bias, biasTable, legumeSet)

NormalizedFrom(recs, max_score, min_score, current_crop, cur_bias, biasTable, legumeSet) ==
    NormalizedOver(recs, min_score, FSub(max_score, min_score), current_crop, cur_bias,
                   biasTable, legumeSet)

\* lines 361-399: the list returned for the selected (crop, score) pairs
Normalized(recs, current_crop, cur_bias, biasTable, legumeSet) ==
    IF recs = << >> THEN << >>
    ELSE NormalizedFrom(recs, MaxScore(recs), MinScore(recs), current_crop, cur_bias,
                        biasTable, legumeSet)

\* lines 325-354: the (crop, score) pairs of the candidates, in candidate order
Scored(candidates, current_crop, cur_bias, biasTable, bandTable, q, legumeSet) ==
    [i \in DOMAIN candidates |->
        ScoreCandidate(candidates[i], current_crop, cur_bias,
                       Get(biasTable, candidates[i]), Get(bandTable, candidates[i]),
                       q, legumeSet)]

\* a variant of line 325 that falls back on the crops of some known soil
CandidatesOrKnown(suitTable, soil_type) ==
    IF soil_type \in DOMAIN suitTable THEN suitTable[soil_type]
    ELSE suitTable[CHOOSE soil \in DOMAIN suitTable : TRUE]

\* line 325: suit_by_soil.get(soil_type, [])
Candidates(suitTable, soil_type) ==
    IF soil_type \in DOMAIN suitTable THEN suitTable[soil_type] ELSE << >>

\* a variant of lines 357-399 that normalises over every candidate of the soil
\* and cuts to top_k afterwards
RecommendationsOverPool(suitTable, biasTable, bandTable, legumeSet, q, current_crop, soil_type, cur_bias) ==
    Slice(Normalized(SortedDesc(Scored(Candidates(suitTable, soil_type), current_crop,
                                       cur_bias, biasTable, bandTable, q, legumeSet)),
                     current_crop, cur_bias, biasTable, legumeSet),
          q.top_k)

\* lines 325-399 for the normalised keys
RecommendationsFor(suitTable, biasTable, bandTable, legumeSet, q, current_crop, soil_type, cur_bias) ==
    Normalized(TopRecommendations(Scored(Candidates(suitTable, soil_type), current_crop,
                                         cur_bias, biasTable, bandTable, q, legumeSet),
                                  q.top_k),
               current_crop, cur_bias, biasTable, legumeSet)

RecommendationsOf(suitTable, biasTable, bandTable, legumeSet, q, current_crop) ==
    RecommendationsFor(suitTable, biasTable, bandTable, legumeSet, q, current_crop,
                       Normalize(q.soil_type), Get(biasTable, current_crop))

\* a variant of lines 321-399 whose line 321 strips the current crop and does
\* not title-case it
RecommendationsForStrippedCrop(suitTable, biasTable, bandTable, legumeSet, q) ==
    RecommendationsOf(suitTable, biasTable, bandTable, legumeSet, q,
                      Strip(q.current_crop))

\* lines 321-399: the list recommend_next_crop returns from loaded tables
Recommendations(suitTable, biasTable, bandTable, legumeSet, q) ==
    RecommendationsOf(suitTable, biasTable, bandTable, legumeSet, q,
                      Normalize(q.current_crop))

(***************************************************************************)
(* The datasets load_data is given and the queries recommend_next_crop is  *)
(* asked.  DatasetA has the soils Clayey and Loamy; DatasetB, the refresh, *)
(* has Sandy with seven crops of equal statistics and a different Clayey.  *)
(***************************************************************************)
DatasetA ==
  Frame(
    << Row(<< " ", "c", "l", "a", "y", "e", "y" >>, << "p", "a", "d", "d", "y" >>, 30, 10, 10, 25, 60, 40),
       Row(<< "C", "l", "a", "y", "e", "y", " " >>, << "P", "A", "D", "D", "Y" >>, 20, 20, 5, 35, 70, 50),
       Row(<< "C", "L", "A", "Y", "E", "Y" >>, << "r", "i", "c", "e", " " >>, 25, 5, 5, 30, 65, 45),
       Row(<< "c", "l", "a", "y", "e", "y" >>, << "P", "u", "l", "s", "e", "s" >>, 5, 20, 10, 20, 60, 45),
       Row(<< "l", "o", "a", "m", "y" >>, << "p", "u", "l", "s", "e", "s" >>, 5, 5, 20, 30, 50, 30),
       Row(<< "L", "o", "a", "m", "y" >>, << "o", "i", "l", " ", "s", "e", "e", "d", "s" >>, 10, 10, 10, 28, 55, 35),
       Row(<< "l", "o", "a", "m", "y", " " >>, << "W", "h", "e", "a", "t" >>, 8, 8, 30, 25, 65, 40) >>)

DatasetB ==
  Frame(
    << Row(<< "s", "a", "n", "d", "y" >>, << "w", "h", "e", "a", "t" >>, 10, 20, 10, 30, 60, 45),
       Row(<< "S", "a", "n", "d", "y" >>, << "T", "o", "b", "a", "c", "c", "o" >>, 10, 20, 10, 30, 60, 45),
       Row(<< "s", "a", "n", "d", "y" >>, << "m", "a", "i", "z", "e" >>, 10, 20, 10, 30, 60, 45),
       Row(<< " ", "S", "a", "n", "d", "y" >>, << "C", "o", "t", "t", "o", "n" >>, 10, 20, 10, 30, 60, 45),
       Row(<< "S", "A", "N", "D", "Y" >>, << "b", "a", "r", "l", "e", "y" >>, 10, 20, 10, 30, 60, 45),
       Row(<< "s", "a", "n", "d", "y" >>, << "S", "u", "g", "a", "r", "c", "a", "n", "e" >>, 10, 20, 10, 30, 60, 45),
       Row(<< "S", "a", "n", "d", "y", " " >>, << "m", "i", "l", "l", "e", "t", "s" >>, 10, 20, 10, 30, 60, 45),
       Row(<< "C", "l", "a", "y", "e", "y" >>, << "P", "a", "d", "d", "y" >>, 5, 5, 30, 40, 80, 60),
       Row(<< "c", "l", "a", "y", "e", "y" >>, << "m", "a", "i", "z", "e", " " >>, 30, 10, 10, 25, 60, 45) >>)

\* data_path names no file
NoFile == << >>

\* the files load_data is given: the two datasets, DatasetB without its Nitrogen
\* column, DatasetA without its Moisture column, and no file
Files == { Some(DatasetA), Some(DatasetB), Some(Without(DatasetB, "Nitrogen")),
           Some(Without(DatasetA, "Moisture")), NoFile }

MaxTopK == 7

\* the arguments of recommend_next_crop
Queries ==
    [current_crop : { << "p", "a", "d", "d", "y", " " >>,
                      << " ", "P", "U", "L", "S", "E", "S" >>,
                      << "m", "a", "i", "z", "e" >>, << "T", "e", "a" >> },
     soil_type : { << " ", "c", "l", "a", "y", "e", "y" >>, << "L", "O", "A", "M", "Y" >>,
                   << "s", "a", "n", "d", "y", " " >> },
     temp : {25, 30}, humidity : {60, 65}, moisture : {45, 52},
     n : {14, 15}, p : {10}, k : {20}, top_k : {-1} \cup (0 .. MaxTopK)]

(***************************************************************************)
(* The recommender object, and the calls made on it.                       *)
(***************************************************************************)
VARIABLES
    soil_data,      \* None or the frame of the last load_data that got to line 284
    suit_by_soil,   \* soil -> sorted crops
    bias_by_crop,   \* crop -> label
    bands,          \* crop -> min and max of each reading
    legumes,        \* the legume set of __init__
    call,           \* None or the query of the recommend_next_crop call under way
    result,         \* None or what the last recommend_next_crop call gave its caller
    memo,           \* history: query -> what was returned for it since the tables
                    \* last changed, and how far it got (see Noted)
    loader,         \* the thread in load_data: its position and its frame
    reader,         \* the thread in recommend_next_crop: its position and locals
    disk,           \* the model files: for each, None or what was dumped
    crop_rec,       \* the model field of the CropRecommendationModel in use
    demand_forecast, \* the model field of the DemandForecastingModel in use
    status,         \* how the last initialize_models ended: "", "returned", "raised"
    reply           \* None or what the last call on one of the two models gave

\* the fields of the recommender object
recommender == << soil_data, suit_by_soil, bias_by_crop, bands, legumes >>

\* what is no part of the recommender or of the call
threads == << loader, reader >>

\* the two trained models, their files and the calls on them
models == << disk, crop_rec, demand_forecast, status, reply >>

aux == << memo, threads, models >>

vars == << soil_data, suit_by_soil, bias_by_crop, bands, legumes, call, result, memo,
          loader, reader, disk, crop_rec, demand_forecast, status, reply >>

Legumes == { << "P", "u", "l", "s", "e", "s" >>,
             << "O", "i", "l", " ", "S", "e", "e", "d", "s" >> }

NoMemo == << >>

IdleLoader == [pc |-> "idle", df |-> None]

IdleReader ==
    [pc |-> "idle", candidates |-> << >>, cur_bias |-> None, cand_bias |-> None,
     scored |-> << >>, recs |-> << >>, reason_bias |-> None, out |-> << >>]

\* no model was saved yet
NoModelFiles == [crop |-> None, demand |-> None]

\* lines 270-275, 17 and 132: __init__ of the three classes
Init ==
    /\ soil_data = None
    /\ suit_by_soil = EmptyDict
    /\ bias_by_crop = EmptyDict
    /\ bands = EmptyDict
    /\ legumes = Legumes
    /\ call = None
    /\ result = None
    /\ memo = NoMemo
    /\ loader = IdleLoader
    /\ reader = IdleReader
    /\ disk = NoModelFiles
    /\ crop_rec = None
    /\ demand_forecast = None
    /\ status = ""
    /\ reply = None

\* line 292: the frame with its nutrient_bias column
WithNutrientBias(df) ==
    [columns |-> df.columns \cup {"nutrient_bias"},
     rows |-> [i \in DOMAIN df.rows |->
                 [c \in (DOMAIN df.rows[i]) \cup {"nutrient_bias"} |->
                     IF c = "nutrient_bias" THEN NutrientBias(df.rows[i])
                     ELSE df.rows[i][c]]]]

\* lines 284-309 for the frame df of lines 279-282
BuildTables(df) ==
    /\ suit_by_soil' = SuitBySoil(df)
    /\ IF ~({"Nitrogen", "Phosphorous", "Potassium"} \subseteq df.columns)
       THEN \* line 292 raises
            /\ soil_data' = Some(df)
            /\ UNCHANGED << bias_by_crop, bands >>
       ELSE /\ soil_data' = Some(WithNutrientBias(df))
            /\ bias_by_crop' \in BiasByCropChoices(df)
            /\ IF ~({"Temparature", "Moisture", "Humidity"} \subseteq df.columns)
               THEN \* line 303 raises
                    UNCHANGED bands
               ELSE bands' = Bands(df)

\* lines 277-309: load_data(data_path), between two recommend_next_crop calls.
\* Every statement that raises leaves the assignments made before it.
LoadData(file) ==
    /\ call = None
    /\ result = None
    /\ UNCHANGED << legumes, call, result >>
    /\ IF file = NoFile
       THEN \* line 279: read_csv raises
            UNCHANGED << soil_data, suit_by_soil, bias_by_crop, bands >>
       ELSE IF ~({"Soil_Type", "Crop_Type"} \subseteq file[1].columns)
       THEN \* lines 281-282 raise
            UNCHANGED << soil_data, suit_by_soil, bias_by_crop, bands >>
       ELSE BuildTables(NormalizedFrame(file[1]))

\* the caller invokes recommend_next_crop(q)
Call(q) ==
    /\ call = None
    /\ result = None
    /\ call' = Some(q)
    /\ UNCHANGED << recommender, result >>

\* lines 313-314: the call raises and returns no list
Raised(q) == [query |-> q, raised |-> "ValueError"]

\* lines 362, 382 and 399: the call returns the list
Returned(q, list) == [query |-> q, raised |-> "", value |-> list]

\* a variant of recommend_next_crop whose line 325 is suit_by_soil[soil_type]:
\* an unknown soil raises
OutcomeIndexingSoil(q) ==
    IF soil_data = None THEN Raised(q)
    ELSE IF Normalize(q.soil_type) \notin DOMAIN suit_by_soil
    THEN [query |-> q, raised |-> "KeyError"]
    ELSE Returned(q, Recommendations(suit_by_soil, bias_by_crop, bands, legumes, q))

\* a variant of recommend_next_crop without the check of lines 313-314
OutcomeUnchecked(q) ==
    Returned(q, Recommendations(suit_by_soil, bias_by_crop, bands, legumes, q))

\* lines 311-399: what recommend_next_crop(q) gives its caller
Outcome(q) ==
    IF soil_data = None THEN Raised(q)
    ELSE Returned(q, Recommendations(suit_by_soil, bias_by_crop, bands, legumes, q))

\* a variant of recommend_next_crop whose line 325 is
\* suit_by_soil.setdefault(soil_type, []): an unknown soil becomes a key
RecommendNextCropSettingDefault ==
    /\ call # None
    /\ call' = None
    /\ result' = Some(Outcome(call[1]))
    /\ suit_by_soil' =
         IF soil_data = None \/ Normalize(call[1].soil_type) \in DOMAIN suit_by_soil
         THEN suit_by_soil
         ELSE [soil \in DOMAIN suit_by_soil \cup {Normalize(call[1].soil_type)} |->
                  Candidates(suit_by_soil, soil)]
    /\ UNCHANGED << soil_data, bias_by_crop, bands, legumes >>

\* a variant of recommend_next_crop whose line 357 sorts the list of line 325 in
\* place (candidates.sort(...)): the soil's entry of suit_by_soil is left in
\* score order
RecommendNextCropSortingInPlace ==
    /\ call # None
    /\ call' = None
    /\ result' = Some(Outcome(call[1]))
    /\ suit_by_soil' =
         IF soil_data = None \/ Normalize(call[1].soil_type) \notin DOMAIN suit_by_soil
         THEN suit_by_soil
         ELSE [suit_by_soil EXCEPT ![Normalize(call[1].soil_type)] =
                  [i \in DOMAIN @ |->
                      SortedDesc(Scored(@, Normalize(call[1].current_crop),
                                        Get(bias_by_crop, Normalize(call[1].current_crop)),
                                        bias_by_crop, bands, call[1], legumes))[i].crop]]
    /\ UNCHANGED << soil_data, bias_by_crop, bands, legumes >>

\* lines 311-399: recommend_next_crop, the whole call
RecommendNextCrop ==
    /\ call # None
    /\ call' = None
    /\ result' = Some(Outcome(call[1]))
    /\ UNCHANGED recommender

\* the caller takes the list (or the error)
Return ==
    /\ result # None
    /\ result' = None
    /\ UNCHANGED << recommender, call >>

\* the calls of one caller, one after the other
Next ==
    \/ \E file \in Files : LoadData(file) /\ UNCHANGED aux
    \/ \E q \in Queries : Call(q) /\ UNCHANGED aux
    \/ RecommendNextCrop /\ UNCHANGED aux
    \/ Return /\ UNCHANGED aux

Spec == Init /\ [][Next]_vars

(***************************************************************************)
(* Properties of the answers.  While result holds an answer the tables are *)
(* the ones it was computed from: LoadData waits for Return.               *)
(***************************************************************************)
IntMin(a, b) == IF a <= b THEN a ELSE b

\* result holds a list
Answered == result # None /\ result[1].raised = ""

\* the crops load_data indexed for the soil of query q
CandidatesOfQuery(q) ==
    IF Normalize(q.soil_type) \in DOMAIN suit_by_soil
    THEN suit_by_soil[Normalize(q.soil_type)] ELSE << >>

PositionIn(seq, x) == CHOOSE i \in DOMAIN seq : seq[i] = x

\* C1: once data is loaded, a call with top_k >= 0 returns exactly
\* min(top_k, number of candidates of the normalised soil) entries; top_k = 0
\* gives the empty list and a top_k above the number of candidates gives them all
LengthIsMinOfTopKAndCandidates ==
    (Answered /\ result[1].query.top_k >= 0) =>
        /\ Len(result[1].value) =
             IntMin(result[1].query.top_k, Len(CandidatesOfQuery(result[1].query)))
        /\ result[1].query.top_k = 0 => result[1].value = << >>
        /\ result[1].query.top_k > Len(CandidatesOfQuery(result[1].query)) =>
             { result[1].value[i].crop : i \in DOMAIN result[1].value }
               = Range(CandidatesOfQuery(result[1].query))

\* a top_k above the number of candidates returned every one of them
AllCandidatesReturned ==
    /\ Answered
    /\ Len(CandidatesOfQuery(result[1].query)) > 0
    /\ result[1].query.top_k > Len(CandidatesOfQuery(result[1].query))
    /\ Len(result[1].value) = Len(CandidatesOfQuery(result[1].query))

\* C2: in every non-empty list each suitability_score is an integer from 50 to
\* 100 and the first entry has 100, whether or not the scores are near-equal
SuitabilityWithinBounds ==
    (Answered /\ result[1].value # << >>) =>
        /\ \A i \in DOMAIN result[1].value :
              result[1].value[i].suitability_score \in 50 .. 100
        /\ result[1].value[1].suitability_score = 100

\* a list of the normal branch whose last entry is held at the floor
FlooredEntryReturned ==
    /\ Answered
    /\ Len(result[1].value) >= 2
    /\ FLeq(NearEqualRange,
            FSub(result[1].value[1].score, result[1].value[Len(result[1].value)].score))
    /\ result[1].value[1].suitability_score = 100
    /\ result[1].value[Len(result[1].value)].suitability_score = 50

\* C4: a call made before load_data has loaded data fails with the ValueError of
\* line 314 and returns no list
NotLoadedRaises ==
    (result # None /\ soil_data = None) =>
        /\ result[1].raised = "ValueError"
        /\ "value" \notin DOMAIN result[1]

\* a call was made on the recommender as __init__ left it, and it raised
RaisedBeforeLoad ==
    /\ result # None
    /\ recommender = << None, EmptyDict, EmptyDict, EmptyDict, Legumes >>
    /\ result[1] = Raised(result[1].query)

\* C5: the list is ordered by raw score, highest first, and entries of equal raw
\* score stand in the order they have in the soil's sorted candidate sequence
OrderedByScoreThenCandidateOrder ==
    Answered =>
        \A i, j \in DOMAIN result[1].value :
            i < j =>
                /\ FLeq(result[1].value[j].score, result[1].value[i].score)
                /\ FCmp(result[1].value[i].score, result[1].value[j].score) = 0
                     => /\ PositionIn(CandidatesOfQuery(result[1].query),
                                      result[1].value[i].crop)
                            < PositionIn(CandidatesOfQuery(result[1].query),
                                         result[1].value[j].crop)
                        /\ StrLess(result[1].value[i].crop, result[1].value[j].crop)

\* a list with two entries of equal raw score below an entry of higher score
TieBelowTheBestReturned ==
    /\ Answered
    /\ Len(result[1].value) >= 3
    /\ FLess(result[1].value[2].score, result[1].value[1].score)
    /\ FCmp(result[1].value[2].score, result[1].value[3].score) = 0

\* C7: once data is loaded, a query whose normalised soil is no key of
\* suit_by_soil gets the empty list and no error
UnknownSoilGivesEmptyList ==
    (/\ result # None
     /\ soil_data # None
     /\ Normalize(result[1].query.soil_type) \notin DOMAIN suit_by_soil) =>
        /\ result[1].raised = ""
        /\ result[1].value = << >>

\* a query for a soil the loaded dataset lacks was answered, with top_k > 0
UnknownSoilAnswered ==
    /\ Answered
    /\ suit_by_soil # EmptyDict
    /\ Normalize(result[1].query.soil_type) \notin DOMAIN suit_by_soil
    /\ result[1].query.top_k > 0
    /\ result[1].value = << >>

\* C8: a recommend_next_crop call, whether it raises, returns the empty list or
\* returns entries, leaves soil_data, suit_by_soil, bias_by_crop, bands and
\* legumes as they were
RecommendLeavesTablesUnchanged ==
    [][(call # None /\ call' = None) => UNCHANGED recommender]_vars

\* a call has returned entries from fully built tables
AnsweredFromBuiltTables ==
    /\ Answered
    /\ result[1].value # << >>
    /\ bias_by_crop # EmptyDict
    /\ bands # EmptyDict

\* the terms of the raw score of candidate c under query q
SameCrop(c, q) == c = Normalize(q.current_crop)

BiasesDiffer(c, q) ==
    /\ Normalize(q.current_crop) \in DOMAIN bias_by_crop
    /\ c \in DOMAIN bias_by_crop
    /\ bias_by_crop[c] # bias_by_crop[Normalize(q.current_crop)]

LegumeOnLowNitrogen(c, q) == q.n < 15 /\ c \in Legumes

TempInBand(c, q) ==
    c \in DOMAIN bands /\ bands[c].temp_min <= q.temp /\ q.temp <= bands[c].temp_max

MoistureInBand(c, q) ==
    c \in DOMAIN bands /\ bands[c].moist_min <= q.moisture /\ q.moisture <= bands[c].moist_max

HumidityInBand(c, q) ==
    c \in DOMAIN bands /\ bands[c].hum_min <= q.humidity /\ q.humidity <= bands[c].hum_max

Term(applies, amount) == IF applies THEN amount ELSE FZero

Tenths(applies, amount) == IF applies THEN amount ELSE 0

\* the sum of the terms in floating point, in the order of lines 332-353
SumOfTerms(c, q) ==
    FAdd(FAdd(Term(SameCrop(c, q), FInt(-1)),
              FAdd(Term(BiasesDiffer(c, q), FDec(5, 10)),
                   Term(LegumeOnLowNitrogen(c, q), FDec(3, 10)))),
         FAdd(FAdd(Term(TempInBand(c, q), FDec(3, 10)),
                   Term(MoistureInBand(c, q), FDec(3, 10))),
              Term(HumidityInBand(c, q), FDec(2, 10))))

\* ten times the sum of the terms, exactly
SumOfTenths(c, q) ==
    Tenths(SameCrop(c, q), -10) + Tenths(BiasesDiffer(c, q), 5)
    + Tenths(LegumeOnLowNitrogen(c, q), 3) + Tenths(TempInBand(c, q), 3)
    + Tenths(MoistureInBand(c, q), 3) + Tenths(HumidityInBand(c, q), 2)

\* C9: the raw score of a candidate is the sum of -1.0 if it is the normalised
\* current crop, +0.5 if both biases are known and differ, +0.3 if n < 15 and it
\* is Pulses or Oil Seeds (whether or not the +0.5 applies), and +0.3, +0.3, +0.2
\* for temperature, moisture, humidity inside its band (nothing without a band)
RawScoreIsSumOfTerms ==
    Answered =>
        \A i \in DOMAIN result[1].value :
            /\ result[1].value[i].score
                 = SumOfTerms(result[1].value[i].crop, result[1].query)
            /\ PyRound(FMulInt(result[1].value[i].score, 10))
                 = SumOfTenths(result[1].value[i].crop, result[1].query)

\* a legume was scored with both the rotation bonus and the legume bonus, and
\* the current crop with the penalty
BothBonusesScored ==
    /\ Answered
    /\ \E i \in DOMAIN result[1].value :
          /\ BiasesDiffer(result[1].value[i].crop, result[1].query)
          /\ LegumeOnLowNitrogen(result[1].value[i].crop, result[1].query)
          /\ TempInBand(result[1].value[i].crop, result[1].query)
    /\ \E i \in DOMAIN result[1].value :
          SameCrop(result[1].value[i].crop, result[1].query)

\* the least and the greatest raw score among the entries of a list
LeastScore(list) ==
    list[CHOOSE i \in DOMAIN list :
            \A j \in DOMAIN list : FLeq(list[i].score, list[j].score)].score

GreatestScore(list) ==
    list[CHOOSE i \in DOMAIN list :
            \A j \in DOMAIN list : FLeq(list[j].score, list[i].score)].score

\* the raw scores of every candidate of the soil of the answered query
PoolOfAnswer ==
    Scored(CandidatesOfQuery(result[1].query), Normalize(result[1].query.current_crop),
           Get(bias_by_crop, Normalize(result[1].query.current_crop)), bias_by_crop,
           bands, result[1].query, legumes)

\* C10: when the raw scores of the returned entries span 0.01 or more, each
\* suitability_score is max(round(((score - min) / range) * 100), 50) with min
\* and range taken over the returned entries, not over every candidate of the soil
SuitabilityNormalisedOverSelected ==
    (/\ Answered
     /\ result[1].value # << >>
     /\ FLeq(NearEqualRange,
             FSub(GreatestScore(result[1].value), LeastScore(result[1].value)))) =>
        \A i \in DOMAIN result[1].value :
            result[1].value[i].suitability_score =
                IntMax(PyRound(FMulInt(FDiv(FSub(result[1].value[i].score,
                                                 LeastScore(result[1].value)),
                                            FSub(GreatestScore(result[1].value),
                                                 LeastScore(result[1].value))),
                                       100)),
                       50)

\* top_k cut off a candidate that scores below every returned entry, and an
\* entry got a suitability_score strictly between the floor and 100
LowestCandidateCutOff ==
    /\ Answered
    /\ result[1].query.top_k >= 2
    /\ Len(result[1].value) = result[1].query.top_k
    /\ FLess(LeastScore(PoolOfAnswer), LeastScore(result[1].value))
    /\ \E i \in DOMAIN result[1].value :
          /\ result[1].value[i].suitability_score > 50
          /\ result[1].value[i].suitability_score < 100

(***************************************************************************)
(* The same calls with a history of the answers: memo[q] holds what was    *)
(* returned for q since the tables last changed.  Its stage is 1 once q    *)
(* was answered, 2 once another query was answered after that, and 3 once  *)
(* q was answered again after that other query.                            *)
(***************************************************************************)
DetQueries ==
    { q \in Queries : /\ q.current_crop = << "T", "e", "a" >>
                      /\ q.soil_type \in { << " ", "c", "l", "a", "y", "e", "y" >>,
                                           << "s", "a", "n", "d", "y", " " >> }
                      /\ q.temp = 25 /\ q.humidity = 60 /\ q.moisture = 45
                      /\ q.top_k = MaxTopK }

Noted(outcome) ==
    [q \in DOMAIN memo \cup {outcome.query} |->
        IF q = outcome.query
        THEN [answers |-> (IF q \in DOMAIN memo THEN memo[q].answers ELSE {})
                            \cup {outcome},
              stage |-> IF q \in DOMAIN memo /\ memo[q].stage >= 2 THEN 3 ELSE 1]
        ELSE [memo[q] EXCEPT !.stage = IF @ = 1 THEN 2 ELSE @]]

NextDet ==
    \/ \E file \in Files :
          /\ LoadData(file)
          /\ memo' = IF recommender' = recommender THEN memo ELSE NoMemo
          /\ UNCHANGED << threads, models >>
    \/ \E q \in DetQueries : Call(q) /\ UNCHANGED aux
    \/ RecommendNextCrop /\ memo' = Noted(result'[1]) /\ UNCHANGED << threads, models >>
    \/ Return /\ UNCHANGED aux

SpecDet == Init /\ [][NextDet]_vars

\* C6: while the tables stay as they are, every call with the same query
\* returns the same list (crops, order, raw scores, suitability scores, reasons),
\* whatever other queries are answered in between
SameQuerySameAnswer ==
    \A q \in DOMAIN memo : Cardinality(memo[q].answers) = 1

\* a query that returned entries was answered again after another query
AnsweredAgainAfterAnother ==
    \E q \in DOMAIN memo :
        /\ memo[q].stage = 3
        /\ \E outcome \in memo[q].answers : outcome.raised = "" /\ outcome.value # << >>

(***************************************************************************)
(* One thread in load_data and one in recommend_next_crop, on the same     *)
(* recommender.  The class takes no lock and load_data assigns the fields  *)
(* one statement after the other, so a step is one read or one write of a  *)
(* field, with the local computation that follows it.                      *)
(***************************************************************************)
ConcFiles == { DatasetA, DatasetB }

ConcQueries ==
    { q \in Queries : /\ q.current_crop \in { << "p", "a", "d", "d", "y", " " >>,
                                              << "T", "e", "a" >> }
                      /\ q.soil_type = << " ", "c", "l", "a", "y", "e", "y" >>
                      /\ q.temp = 25 /\ q.humidity = 60 /\ q.moisture = 45 /\ q.n = 14
                      /\ q.top_k = 2 }

\* lines 279-284: the frame is read and normalised, then self.soil_data = df
StartLoad(file) ==
    /\ loader.pc = "idle"
    /\ loader' = [pc |-> "l287", df |-> Some(NormalizedFrame(file))]
    /\ soil_data' = loader'.df
    /\ UNCHANGED << suit_by_soil, bias_by_crop, bands, legumes, call, result, memo, reader, models >>

\* lines 287-289
BuildSuitBySoil ==
    /\ loader.pc = "l287"
    /\ suit_by_soil' = SuitBySoil(loader.df[1])
    /\ loader' = [loader EXCEPT !.pc = "l292"]
    /\ UNCHANGED << soil_data, bias_by_crop, bands, legumes, call, result, memo, reader, models >>

\* lines 292-296: the column is added to the frame soil_data refers to
LabelRows ==
    /\ loader.pc = "l292"
    /\ soil_data' = Some(WithNutrientBias(loader.df[1]))
    /\ loader' = [loader EXCEPT !.pc = "l298"]
    /\ UNCHANGED << suit_by_soil, bias_by_crop, bands, legumes, call, result, memo, reader, models >>

\* lines 298-300
BuildBiasByCrop ==
    /\ loader.pc = "l298"
    /\ bias_by_crop' \in BiasByCropChoices(loader.df[1])
    /\ loader' = [loader EXCEPT !.pc = "l303"]
    /\ UNCHANGED << soil_data, suit_by_soil, bands, legumes, call, result, memo, reader, models >>

\* lines 303-309
BuildBands ==
    /\ loader.pc = "l303"
    /\ bands' = Bands(loader.df[1])
    /\ loader' = IdleLoader
    /\ UNCHANGED << soil_data, suit_by_soil, bias_by_crop, legumes, call, result, memo, reader, models >>

\* the call gives its caller the outcome
Finish(outcome) ==
    /\ result' = Some(outcome)
    /\ call' = None
    /\ reader' = IdleReader

\* lines 357-366: the selected pairs, and the empty list of line 362
Rank(scored, next) ==
    IF TopRecommendations(scored, call[1].top_k) = << >>
    THEN Finish(Returned(call[1], << >>))
    ELSE /\ reader' = [next EXCEPT !.pc = "l377",
                                   !.recs = TopRecommendations(scored, call[1].top_k)]
         /\ UNCHANGED << call, result >>

\* lines 313-314
CheckLoaded ==
    /\ call # None
    /\ reader.pc = "idle"
    /\ IF soil_data = None
       THEN Finish(Raised(call[1]))
       ELSE reader' = [reader EXCEPT !.pc = "l325"] /\ UNCHANGED << call, result >>
    /\ UNCHANGED << recommender, memo, loader, models >>

\* lines 321-325
ReadCandidates ==
    /\ reader.pc = "l325"
    /\ reader' = [reader EXCEPT !.pc = "l328",
                                !.candidates = Candidates(suit_by_soil,
                                                          Normalize(call[1].soil_type))]
    /\ UNCHANGED << recommender, call, result, memo, loader, models >>

\* lines 326-328, and lines 357-362 when there is no candidate
ReadCurBias ==
    /\ reader.pc = "l328"
    /\ IF reader.candidates = << >>
       THEN Finish(Returned(call[1], << >>))
       ELSE /\ reader' = [reader EXCEPT
                             !.pc = "l335",
                             !.cur_bias = Get(bias_by_crop, Normalize(call[1].current_crop))]
            /\ UNCHANGED << call, result >>
    /\ UNCHANGED << recommender, memo, loader, models >>

\* lines 332-340 for the next candidate
ReadCandBias ==
    /\ reader.pc = "l335"
    /\ reader' = [reader EXCEPT
                     !.pc = "l343",
                     !.cand_bias = Get(bias_by_crop,
                                       reader.candidates[Len(reader.scored) + 1])]
    /\ UNCHANGED << recommender, call, result, memo, loader, models >>

\* the pairs scored so far and the one of the candidate under way
ScoredWith(b) ==
    Append(reader.scored,
           ScoreCandidate(reader.candidates[Len(reader.scored) + 1],
                          Normalize(call[1].current_crop), reader.cur_bias,
                          reader.cand_bias, b, call[1], legumes))

\* lines 343-354 for that candidate, and lines 357-366 after the last one
ReadBand ==
    /\ reader.pc = "l343"
    /\ IF Len(reader.scored) + 1 < Len(reader.candidates)
       THEN /\ reader' = [reader EXCEPT
                             !.pc = "l335",
                             !.scored = ScoredWith(Get(bands,
                                            reader.candidates[Len(reader.scored) + 1]))]
            /\ UNCHANGED << call, result >>
       ELSE Rank(ScoredWith(Get(bands, reader.candidates[Len(reader.scored) + 1])),
                 [reader EXCEPT !.scored = << >>])
    /\ UNCHANGED << recommender, memo, loader, models >>

\* lines 377 and 394: bias_by_crop.get(crop) for the reason of the next entry
ReadReasonBias ==
    /\ reader.pc = "l377"
    /\ reader' = [reader EXCEPT
                     !.pc = "l378",
                     !.reason_bias = Get(bias_by_crop,
                                         reader.recs[Len(reader.out) + 1].crop)]
    /\ UNCHANGED << recommender, call, result, memo, loader, models >>

\* the entries built so far and the next one
OutWith(benefits_bias) ==
    Append(reader.out,
           Entry(reader.recs[Len(reader.out) + 1], Len(reader.out),
                 MinScore(reader.recs), FSub(MaxScore(reader.recs), MinScore(reader.recs)),
                 FLess(FSub(MaxScore(reader.recs), MinScore(reader.recs)), NearEqualRange),
                 Normalize(call[1].current_crop), reader.cur_bias, reader.reason_bias,
                 benefits_bias, legumes))

\* lines 378 and 395: bias_by_crop.get(crop) for the benefits; the entry is
\* appended, and after the last one the list is returned (lines 382, 399)
ReadBenefitsBias ==
    /\ reader.pc = "l378"
    /\ IF Len(reader.out) + 1 < Len(reader.recs)
       THEN /\ reader' = [reader EXCEPT
                             !.pc = "l377",
                             !.out = OutWith(Get(bias_by_crop,
                                                 reader.recs[Len(reader.out) + 1].crop))]
            /\ UNCHANGED << call, result >>
       ELSE Finish(Returned(call[1],
                            OutWith(Get(bias_by_crop,
                                        reader.recs[Len(reader.out) + 1].crop))))
    /\ UNCHANGED << recommender, memo, loader, models >>

NextConc ==
    \/ \E file \in ConcFiles : StartLoad(file)
    \/ BuildSuitBySoil
    \/ LabelRows
    \/ BuildBiasByCrop
    \/ BuildBands
    \/ \E q \in ConcQueries : Call(q) /\ UNCHANGED aux
    \/ CheckLoaded
    \/ ReadCandidates
    \/ ReadCurBias
    \/ ReadCandBias
    \/ ReadBand
    \/ ReadReasonBias
    \/ ReadBenefitsBias
    \/ Return /\ UNCHANGED aux

SpecConc == Init /\ [][NextConc]_vars

\* what the call with query q returns from the tables load_data builds from file
AnswersFrom(file, q) ==
    { Returned(q, Recommendations(SuitBySoil(NormalizedFrame(file)), bias,
                                  Bands(NormalizedFrame(file)), Legumes, q)) :
        bias \in BiasByCropChoices(NormalizedFrame(file)) }

\* C3: with load_data running alongside, every recommend_next_crop call either
\* raises the not-loaded error or returns what it would return from the three
\* tables of one dataset; none computes from a partly built or mixed set
AnswerFromOneDataset ==
    result # None =>
        \/ result[1] = Raised(result[1].query)
        \/ \E file \in ConcFiles : result[1] \in AnswersFrom(file, result[1].query)

(***************************************************************************)
(* Claims about the entries of an answer, continued                        *)
(***************************************************************************)
\* the raw scores of the answer span less than 0.01
NearEqualAnswer ==
    /\ Answered
    /\ result[1].value # << >>
    /\ FLess(FSub(GreatestScore(result[1].value), LeastScore(result[1].value)),
             NearEqualRange)

\* C11: when the raw scores of the returned entries span less than 0.01, the
\* suitability_score depends on the rank alone: 100, 90, 80, 70, 60 for the
\* first five entries and 50 for every later one
NearEqualSuitabilityIsRankLadder ==
    NearEqualAnswer =>
        \A i \in DOMAIN result[1].value :
            result[1].value[i].suitability_score = IF i <= 5 THEN 110 - 10 * i ELSE 50

\* a near-equal answer with seven entries, the last two on the floor
SevenNearEqualEntriesReturned ==
    /\ NearEqualAnswer
    /\ Len(result[1].value) >= 7
    /\ result[1].value[5].suitability_score = 60
    /\ result[1].value[6].suitability_score = 50
    /\ result[1].value[7].suitability_score = 50

\* C12: along a returned list the suitability_score never increases, in the
\* near-equal branch and in the normalised branch alike
SuitabilityNonIncreasing ==
    Answered =>
        \A i, j \in DOMAIN result[1].value :
            i < j => result[1].value[i].suitability_score
                         >= result[1].value[j].suitability_score

\* a normalised answer that falls from 100 through an intermediate value to
\* the floor
NormalisedAnswerFallsToFloor ==
    /\ Answered
    /\ Len(result[1].value) >= 3
    /\ ~NearEqualAnswer
    /\ result[1].value[1].suitability_score = 100
    /\ result[1].value[2].suitability_score < 100
    /\ result[1].value[2].suitability_score > 50
    /\ result[1].value[Len(result[1].value)].suitability_score = 50

\* the explanation for each combination of the three conditions
ExpectedReason(rotates, differs, fixes) ==
    IF rotates /\ differs /\ fixes
    THEN "Crop rotation benefit; Different nutrient requirements; Nitrogen fixing properties"
    ELSE IF rotates /\ differs
    THEN "Crop rotation benefit; Different nutrient requirements"
    ELSE IF rotates /\ fixes
    THEN "Crop rotation benefit; Nitrogen fixing properties"
    ELSE IF differs /\ fixes
    THEN "Different nutrient requirements; Nitrogen fixing properties"
    ELSE IF rotates THEN "Crop rotation benefit"
    ELSE IF differs THEN "Different nutrient requirements"
    ELSE IF fixes THEN "Nitrogen fixing properties"
    ELSE "Suitable for soil type"

\* C13: the reason of each returned candidate c lists 'Crop rotation benefit'
\* (c is not the current crop), 'Different nutrient requirements' (both crops
\* have a bias label and the labels differ) and 'Nitrogen fixing properties'
\* (c is a legume, whatever n is), in that order, joined with '; ', leaving out
\* the clauses whose condition is false; it is 'Suitable for soil type' exactly
\* when none of the three conditions holds
ReasonListsClausesInOrder ==
    Answered =>
        \A i \in DOMAIN result[1].value :
            /\ result[1].value[i].reason =
                   ExpectedReason(~SameCrop(result[1].value[i].crop, result[1].query),
                                  BiasesDiffer(result[1].value[i].crop, result[1].query),
                                  result[1].value[i].crop \in Legumes)
            /\ result[1].value[i].reason = "Suitable for soil type" <=>
                   /\ SameCrop(result[1].value[i].crop, result[1].query)
                   /\ ~BiasesDiffer(result[1].value[i].crop, result[1].query)
                   /\ result[1].value[i].crop \notin Legumes

\* with n not below 15, one answer holds an entry with all three clauses and
\* an entry with the fallback text
FullAndFallbackReasonsReturned ==
    /\ Answered
    /\ result[1].query.n >= 15
    /\ \E i, j \in DOMAIN result[1].value :
           /\ result[1].value[i].reason = "Suitable for soil type"
           /\ result[1].value[j].reason =
                  "Crop rotation benefit; Different nutrient requirements; Nitrogen fixing properties"

(***************************************************************************)
(* load_data on generated files.  The tables of a load depend on its file   *)
(* alone (lines 284-307 assign every field anew), so the files are loaded   *)
(* into a fresh recommender.                                               *)
(***************************************************************************)
MaxRows == 3

MaxNutrient == 3

\* soil and crop spellings of a generated row: one crop on two soils, one crop
\* in two spellings on one soil, and three crops on one soil
BuildKeys ==
    { << << " ", "s", "i", "l", "t" >>, << "r", "y", "e" >> >>,
      << << "S", "I", "L", "T" >>, << "R", "Y", "E", " " >> >>,
      << << "s", "i", "l", "t", " " >>, << "o", "a", "t", "s" >> >>,
      << << "S", "i", "l", "t" >>, << " ", "O", "a", "t" >> >>,
      << << "p", "E", "A", "T" >>, << "r", "y", "e" >> >> }

\* nutrients and readings of a generated row: one profile for each label
BuildProfiles == { << 2, 1, 1, 20, 70, 40 >>, << 1, 2, 2, 25, 65, 45 >>, << 1, 1, 2, 30, 60, 50 >> }

BuildRows ==
    { Row(key[1], key[2], v[1], v[2], v[3], v[4], v[5], v[6]) : key \in BuildKeys, v \in BuildProfiles }

\* the generated files: every sequence of 1..MaxRows generated rows, and every
\* one-row file with nutrients in 1..MaxNutrient
BuildFiles ==
    { Frame(rows) : rows \in UNION { [1..len -> BuildRows] : len \in 1..MaxRows } }
    \cup { Frame(<< Row(<< "s", "i", "l", "t" >>, << "r", "y", "e" >>, n, p, k, 20, 70, 40) >>) :
             n \in 1..MaxNutrient, p \in 1..MaxNutrient, k \in 1..MaxNutrient }

NextBuild ==
    /\ soil_data = None
    /\ \E file \in BuildFiles : LoadData(Some(file)) /\ UNCHANGED aux

SpecBuild == Init /\ [][NextBuild]_vars

\* the rows of the loaded frame, with their nutrient_bias column
LoadedRows == IF soil_data = None THEN << >> ELSE soil_data[1].rows

NitrogenRule(r) == r.Nitrogen >= r.Phosphorous /\ r.Nitrogen >= r.Potassium

PhosphorousRule(r) == r.Phosphorous >= r.Nitrogen /\ r.Phosphorous >= r.Potassium

\* C14: the label of every observation row is N_high if N >= P and N >= K,
\* otherwise P_high if P >= N and P >= K, otherwise K_high
RowLabelFollowsRule ==
    \A i \in DOMAIN LoadedRows :
        /\ NitrogenRule(LoadedRows[i]) => LoadedRows[i].nutrient_bias = "N_high"
        /\ ~NitrogenRule(LoadedRows[i]) /\ PhosphorousRule(LoadedRows[i]) =>
               LoadedRows[i].nutrient_bias = "P_high"
        /\ ~NitrogenRule(LoadedRows[i]) /\ ~PhosphorousRule(LoadedRows[i]) =>
               LoadedRows[i].nutrient_bias = "K_high"

\* a file with a row of each label has been loaded, its P_high row being one
\* on which phosphorous only ties with potassium
RowsOfEachLabelLoaded ==
    /\ \E i \in DOMAIN LoadedRows :
           /\ LoadedRows[i].nutrient_bias = "P_high"
           /\ LoadedRows[i].Phosphorous = LoadedRows[i].Potassium
    /\ \E i \in DOMAIN LoadedRows : LoadedRows[i].nutrient_bias = "K_high"
    /\ \E i \in DOMAIN LoadedRows : LoadedRows[i].nutrient_bias = "N_high"

\* the greatest of N, P and K of the row is reached by more than one of them
SharedMaximum(r) ==
    \/ r.Nitrogen = r.Phosphorous /\ r.Nitrogen >= r.Potassium
    \/ r.Nitrogen = r.Potassium /\ r.Nitrogen >= r.Phosphorous
    \/ r.Phosphorous = r.Potassium /\ r.Phosphorous >= r.Nitrogen

\* C15 as stated: on a row whose maximum is shared and which neither the N rule
\* nor the P rule decides, K wins the tie, and a row with N = P = K is labelled
\* K_high
ThreeWayTieIsKHigh ==
    \A i \in DOMAIN LoadedRows :
        /\ (/\ SharedMaximum(LoadedRows[i])
            /\ ~NitrogenRule(LoadedRows[i])
            /\ ~PhosphorousRule(LoadedRows[i])) => LoadedRows[i].nutrient_bias = "K_high"
        /\ (/\ LoadedRows[i].Nitrogen = LoadedRows[i].Phosphorous
            /\ LoadedRows[i].Phosphorous = LoadedRows[i].Potassium) =>
               LoadedRows[i].nutrient_bias = "K_high"

\* C15, amended: on a row whose maximum is shared the N rule or the P rule
\* always decides, so K never wins a tie (a row is K_high only when K is
\* strictly greater than N and than P), and a row with N = P = K is labelled
\* N_high
SharedMaximumNeverKHigh ==
    \A i \in DOMAIN LoadedRows :
        /\ SharedMaximum(LoadedRows[i]) =>
               /\ NitrogenRule(LoadedRows[i]) \/ PhosphorousRule(LoadedRows[i])
               /\ LoadedRows[i].nutrient_bias # "K_high"
        /\ LoadedRows[i].nutrient_bias = "K_high" <=>
               /\ LoadedRows[i].Potassium > LoadedRows[i].Nitrogen
               /\ LoadedRows[i].Potassium > LoadedRows[i].Phosphorous
        /\ (/\ LoadedRows[i].Nitrogen = LoadedRows[i].Phosphorous
            /\ LoadedRows[i].Phosphorous = LoadedRows[i].Potassium) =>
               LoadedRows[i].nutrient_bias = "N_high"

\* a row with N = P = K has been loaded and labelled
ThreeWayTieLoaded ==
    \E i \in DOMAIN LoadedRows :
        /\ LoadedRows[i].Nitrogen = LoadedRows[i].Phosphorous
        /\ LoadedRows[i].Phosphorous = LoadedRows[i].Potassium
        /\ LoadedRows[i].nutrient_bias \in BiasLabels

\* the canonical spellings of the generated soils and crops
Silt == << "S", "i", "l", "t" >>

Peat == << "P", "e", "a", "t" >>

Rye == << "R", "y", "e" >>

Oats == << "O", "a", "t", "s" >>

Oat == << "O", "a", "t" >>

\* the crops of the loaded rows of the soil
CropsOnSoil(soil) ==
    { LoadedRows[i].Crop_Type : i \in { j \in DOMAIN LoadedRows : LoadedRows[j].Soil_Type = soil } }

\* C16: after load_data the candidate list of every soil of the dataset holds
\* exactly the canonical names of the crops observed on that soil, each once,
\* in strictly increasing lexicographic order
CandidateListIsSortedCropSet ==
    soil_data # None =>
        /\ DOMAIN suit_by_soil = { LoadedRows[i].Soil_Type : i \in DOMAIN LoadedRows }
        /\ DOMAIN suit_by_soil \subseteq {Silt, Peat}
        /\ \A soil \in DOMAIN suit_by_soil :
              /\ Range(suit_by_soil[soil]) = CropsOnSoil(soil)
              /\ Range(suit_by_soil[soil]) \subseteq {Rye, Oats, Oat}
              /\ \A i, j \in DOMAIN suit_by_soil[soil] :
                    i < j => StrLess(suit_by_soil[soil][i], suit_by_soil[soil][j])

\* three rows gave two crops on one soil and one of them on the other
TwoSoilsWithSharedCropLoaded ==
    /\ Len(LoadedRows) = 3
    /\ DOMAIN suit_by_soil = {Silt, Peat}
    /\ suit_by_soil[Silt] = << Oats, Rye >>
    /\ suit_by_soil[Peat] = << Rye >>

\* how many loaded rows of the crop carry the label
RowsLabelled(crop, label) ==
    Cardinality({ i \in DOMAIN LoadedRows :
                    /\ LoadedRows[i].Crop_Type = crop
                    /\ LoadedRows[i].nutrient_bias = label })

\* C18: after load_data every crop of the dataset has a crop-level label, and it
\* is a most frequent per-row label of the crop: it labels at least one of the
\* crop's rows and no other label labels strictly more of them
CropLabelIsAMode ==
    soil_data # None =>
        /\ DOMAIN bias_by_crop = { LoadedRows[i].Crop_Type : i \in DOMAIN LoadedRows }
        /\ \A crop \in DOMAIN bias_by_crop :
              /\ RowsLabelled(crop, bias_by_crop[crop]) > 0
              /\ \A other \in {"N_high", "P_high", "K_high"} :
                    RowsLabelled(crop, other) <= RowsLabelled(crop, bias_by_crop[crop])

\* a crop with two rows of one label and one row of another got the label of
\* the two
MajorityLabelLoaded ==
    \E crop \in DOMAIN bias_by_crop :
        /\ RowsLabelled(crop, bias_by_crop[crop]) = 2
        /\ \E other \in {"N_high", "P_high", "K_high"} : RowsLabelled(crop, other) = 1

\* the last load_data ran to its end: the frame has its nutrient_bias column
\* and the three reading columns
LoadSucceeded ==
    /\ soil_data # None
    /\ {"nutrient_bias", "Temparature", "Moisture", "Humidity"} \subseteq soil_data[1].columns

\* the values of the column over the loaded rows of the crop
ReadingsOf(crop, column) ==
    { LoadedRows[i][column] : i \in { j \in DOMAIN LoadedRows : LoadedRows[j].Crop_Type = crop } }

\* low is the least and high the greatest of the values
IsMinMax(low, high, values) ==
    /\ low \in values
    /\ high \in values
    /\ \A v \in values : low <= v /\ v <= high

\* ten times what the score of the entry owes to the readings: the score less
\* the same-crop, bias and legume terms
EnvTenths(entry, q) ==
    PyRound(FMulInt(entry.score, 10))
    - Tenths(SameCrop(entry.crop, q), -10) - Tenths(BiasesDiffer(entry.crop, q), 5)
    - Tenths(LegumeOnLowNitrogen(entry.crop, q), 3)

\* C17: after load_data the band of each crop is the minimum and the maximum of
\* temperature, moisture and humidity over the observations of the crop, and the
\* scorer gives the term of a reading exactly when min <= reading <= max, the
\* endpoints included
BandsAreClosedMinMaxIntervals ==
    /\ LoadSucceeded =>
           /\ DOMAIN bands = { LoadedRows[i].Crop_Type : i \in DOMAIN LoadedRows }
           /\ \A crop \in DOMAIN bands :
                 /\ IsMinMax(bands[crop].temp_min, bands[crop].temp_max,
                             ReadingsOf(crop, "Temparature"))
                 /\ IsMinMax(bands[crop].moist_min, bands[crop].moist_max,
                             ReadingsOf(crop, "Moisture"))
                 /\ IsMinMax(bands[crop].hum_min, bands[crop].hum_max,
                             ReadingsOf(crop, "Humidity"))
    /\ Answered =>
           \A i \in DOMAIN result[1].value :
               result[1].value[i].crop \in DOMAIN bands =>
                   EnvTenths(result[1].value[i], result[1].query) =
                       Tenths(/\ bands[result[1].value[i].crop].temp_min <= result[1].query.temp
                              /\ result[1].query.temp <= bands[result[1].value[i].crop].temp_max, 3)
                       + Tenths(/\ bands[result[1].value[i].crop].moist_min <= result[1].query.moisture
                                /\ result[1].query.moisture <= bands[result[1].value[i].crop].moist_max, 3)
                       + Tenths(/\ bands[result[1].value[i].crop].hum_min <= result[1].query.humidity
                                /\ result[1].query.humidity <= bands[result[1].value[i].crop].hum_max, 2)

\* after a complete load, one answer holds an entry scored for a humidity equal
\* to the minimum of its band and an entry scored for a humidity equal to the
\* maximum of its band, both bands being wider than a point
ReadingsOnBothEndpointsScored ==
    /\ LoadSucceeded
    /\ Answered
    /\ \E i, j \in DOMAIN result[1].value :
           /\ result[1].value[i].crop \in DOMAIN bands
           /\ result[1].value[j].crop \in DOMAIN bands
           /\ bands[result[1].value[i].crop].hum_min = result[1].query.humidity
           /\ bands[result[1].value[i].crop].hum_max > result[1].query.humidity
           /\ bands[result[1].value[j].crop].hum_max = result[1].query.humidity
           /\ bands[result[1].value[j].crop].hum_min < result[1].query.humidity
           /\ EnvTenths(result[1].value[i], result[1].query) >= 2
           /\ EnvTenths(result[1].value[j], result[1].query) >= 2

\* C20: after a load_data that ran to its end, recommend_next_crop returns a
\* list and raises nothing, whatever the current crop, the soil (known to the
\* dataset or not), the readings and top_k are; a call that raises is one on
\* a recommender without data, and raises the not-initialised error
LoadedCallReturnsList ==
    result # None =>
        /\ LoadSucceeded =>
               /\ result[1].raised = ""
               /\ result[1].value = [i \in 1 .. Len(result[1].value) |-> result[1].value[i]]
        /\ result[1].raised # "" => result[1].raised = "ValueError" /\ soil_data = None

\* after a complete load, a call with a soil and a crop the dataset does not
\* have and a negative top_k has returned
UnknownKeysAndNegativeTopKAnswered ==
    /\ LoadSucceeded
    /\ Answered
    /\ Normalize(result[1].query.soil_type) \notin DOMAIN suit_by_soil
    /\ Normalize(result[1].query.current_crop) \notin DOMAIN bias_by_crop
    /\ result[1].query.top_k < 0

(***************************************************************************)
(* The same query in several spellings.  memo keeps the outcome the caller  *)
(* took last since the tables last changed.                                 *)
(***************************************************************************)
\* crops and soils with the spellings they are asked in
CropNames ==
    { [name |-> << "P", "a", "d", "d", "y" >>,
       spelled |-> { << "p", "a", "d", "d", "y", " " >>, << " ", "P", "A", "D", "D", "Y" >>, << "P", "a", "d", "d", "y" >> }],
      [name |-> << "O", "i", "l", " ", "S", "e", "e", "d", "s" >>,
       spelled |-> { << "o", "i", "l", " ", "s", "e", "e", "d", "s" >>, << "O", "i", "l", " ", "S", "e", "e", "d", "s", " " >>,
                     << " ", "O", "I", "L", " ", "S", "E", "E", "D", "S" >> }] }

SoilNames ==
    { [name |-> << "C", "l", "a", "y", "e", "y" >>,
       spelled |-> { << " ", "c", "l", "a", "y", "e", "y" >>, << "C", "L", "A", "Y", "E", "Y", " " >> }],
      [name |-> << "L", "o", "a", "m", "y" >>,
       spelled |-> { << "L", "o", "a", "m", "y" >>, << " ", "l", "O", "A", "M", "Y", " " >> }] }

SpelledQueries ==
    [current_crop : UNION { e.spelled : e \in CropNames },
     soil_type : UNION { e.spelled : e \in SoilNames },
     temp : {25}, humidity : {60}, moisture : {45},
     n : {14}, p : {10}, k : {20}, top_k : {MaxTopK}]

\* the name the spelling stands for
NameOf(names, str) == (CHOOSE e \in names : str \in e.spelled).name

\* the query with its keys replaced by the names they spell
UpToSpelling(q) ==
    [q EXCEPT !.current_crop = NameOf(CropNames, @), !.soil_type = NameOf(SoilNames, @)]

NextSpelled ==
    \/ \E file \in Files :
          /\ LoadData(file)
          /\ memo' = IF recommender' = recommender THEN memo ELSE NoMemo
          /\ UNCHANGED << threads, models >>
    \/ \E q \in SpelledQueries : Call(q) /\ UNCHANGED aux
    \/ RecommendNextCrop /\ UNCHANGED aux
    \/ Return /\ memo' = << result[1] >> /\ UNCHANGED << threads, models >>

SpecSpelled == Init /\ [][NextSpelled]_vars

\* the call before the one of the result was answered from the same tables
\* and asked the same query up to spelling
AskedBefore ==
    /\ result # None
    /\ memo # NoMemo
    /\ UpToSpelling(memo[1].query) = UpToSpelling(result[1].query)

\* C19: two queries whose current_crop and soil_type differ only in surrounding
\* whitespace and letter case get the same result from the same tables, and a
\* query that names a soil of the dataset in any such spelling gets the
\* candidates of that soil
SpellingDoesNotMatter ==
    /\ AskedBefore =>
           /\ memo[1].raised = result[1].raised
           /\ Answered => memo[1].value = result[1].value
    /\ (Answered /\ NameOf(SoilNames, result[1].query.soil_type) \in DOMAIN suit_by_soil) =>
           /\ Len(result[1].value)
                  = Len(suit_by_soil[NameOf(SoilNames, result[1].query.soil_type)])
           /\ { result[1].value[i].crop : i \in DOMAIN result[1].value }
                  = Range(suit_by_soil[NameOf(SoilNames, result[1].query.soil_type)])

\* a query got a non-empty answer that has its current crop among its entries,
\* after the same query was answered in another spelling of the crop and of
\* the soil
AnsweredInTwoSpellings ==
    /\ Answered
    /\ AskedBefore
    /\ result[1].value # << >>
    /\ memo[1].query.current_crop # result[1].query.current_crop
    /\ memo[1].query.soil_type # result[1].query.soil_type
    /\ \E i \in DOMAIN result[1].value :
           result[1].value[i].crop = NameOf(CropNames, result[1].query.current_crop)

(***************************************************************************)
(* The two trained models and initialize_models.  Fitting and inference    *)
(* are sklearn's; of a fitted candidate only its name and its score on the *)
(* test split are kept.                                                    *)
(***************************************************************************)
MaxTestScore == 1

\* the dict `models` of train_and_save, in its order, with the scores of the
\* candidates on the test split
CropCandidates(scores) ==
    << [name |-> "RandomForest", score |-> scores[1]],
       [name |-> "LogisticRegression", score |-> scores[2]] >>

DemandCandidates(scores) ==
    << [name |-> "RandomForest", score |-> scores[1]],
       [name |-> "LinearRegression", score |-> scores[2]] >>

\* score > best_score, None standing for -float('inf')
Exceeds(score, best_score) == best_score = None \/ score > best_score[1]

\* the selection loop of train_and_save: best_model after the candidates
RECURSIVE SelectBest(_, _, _)
SelectBest(candidates, best_score, best_model) ==
    IF candidates = << >> THEN best_model
    ELSE IF Exceeds(Head(candidates).score, best_score)
    THEN SelectBest(Tail(candidates), Some(Head(candidates).score), Some(Head(candidates).name))
    ELSE SelectBest(Tail(candidates), best_score, best_model)

\* `if not m.load_model(): m.train_and_save()`: the model field afterwards and
\* the model file afterwards, or the raise of read_csv when the training data
\* is missing
LoadOrTrain(file, has_data, candidates, best_score) ==
    IF file # None THEN [raised |-> FALSE, model |-> file[1], saved |-> file]
    ELSE IF ~has_data THEN [raised |-> TRUE, model |-> None, saved |-> file]
    ELSE [raised |-> FALSE,
          model |-> SelectBest(candidates, best_score, None),
          saved |-> Some(SelectBest(candidates, best_score, None))]

\* load_data(file) runs to its end
LoadCompletes(file) ==
    /\ file # NoFile
    /\ {"Soil_Type", "Crop_Type", "Nitrogen", "Phosphorous", "Potassium",
        "Temparature", "Moisture", "Humidity"} \subseteq file[1].columns

\* what initialize_models leaves when it returns crop and demand, or raises
\* after saving what it had trained
Initialized(crop, demand, file) ==
    /\ disk' = [crop |-> crop.saved, demand |-> demand.saved]
    /\ IF crop.raised \/ demand.raised \/ ~LoadCompletes(file)
       THEN /\ status' = "raised"
            /\ UNCHANGED << crop_rec, demand_forecast, recommender, call, result >>
       ELSE /\ status' = "returned"
            /\ crop_rec' = crop.model
            /\ demand_forecast' = demand.model
            /\ LoadData(file)

\* pipeline.py lines 416-442: initialize_models(), whose three objects replace
\* the ones in use when it returns
InitializeModels(crop_data, crop_scores, demand_data, demand_scores, file) ==
    /\ call = None
    /\ result = None
    /\ reply = None
    /\ IF LoadOrTrain(disk.crop, crop_data, CropCandidates(crop_scores), Some(0)).raised
       THEN /\ status' = "raised"
            /\ UNCHANGED << disk, crop_rec, demand_forecast, recommender, call, result >>
       ELSE Initialized(LoadOrTrain(disk.crop, crop_data, CropCandidates(crop_scores), Some(0)),
                        LoadOrTrain(disk.demand, demand_data, DemandCandidates(demand_scores), None),
                        file)
    /\ UNCHANGED << memo, threads, reply >>

\* lines 83-86 and 208-211: predict of the model object, which raises when its
\* model field is None; the prediction itself is sklearn's
Predict(op, model) ==
    /\ status = "returned"
    /\ call = None
    /\ result = None
    /\ reply = None
    /\ reply' = Some([op |-> op, raised |-> IF model = None THEN "ValueError" ELSE ""])
    /\ UNCHANGED << recommender, call, result, memo, threads, disk, crop_rec,
                    demand_forecast, status >>

\* calendar.isleap
IsLeap(year) == year % 4 = 0 /\ (year % 100 # 0 \/ year % 400 = 0)

DaysInMonth(year, month) ==
    IF month = 2 THEN (IF IsLeap(year) THEN 29 ELSE 28)
    ELSE IF month \in {4, 6, 9, 11} THEN 30 ELSE 31

\* date + timedelta(days = days), for days >= 0
RECURSIVE AddDays(_, _)
AddDays(date, days) ==
    IF date.day + days <= DaysInMonth(date.year, date.month)
    THEN [date EXCEPT !.day = @ + days]
    ELSE AddDays([year |-> IF date.month = 12 THEN date.year + 1 ELSE date.year,
                  month |-> IF date.month = 12 THEN 1 ELSE date.month + 1,
                  day |-> 1],
                 days - (DaysInMonth(date.year, date.month) - date.day + 1))

\* lines 243-265: the year and month of each forecast; the predicted demand
\* is sklearn's
Forecasts(now, months) ==
    [i \in 1 .. months |->
        [year |-> AddDays(now, 30 * i).year, month |-> AddDays(now, 30 * i).month]]

\* lines 235-265: forecast_next_months(region, crop, months) called on the date
\* now
ForecastNextMonths(now, months) ==
    /\ status = "returned"
    /\ call = None
    /\ result = None
    /\ reply = None
    /\ reply' = Some(IF demand_forecast = None
                     THEN [op |-> "forecast_next_months", raised |-> "ValueError"]
                     ELSE [op |-> "forecast_next_months", raised |-> "", now |-> now,
                           months |-> months, value |-> Forecasts(now, months)])
    /\ UNCHANGED << recommender, call, result, memo, threads, disk, crop_rec,
                    demand_forecast, status >>

\* the caller takes what the call gave
TakeReply ==
    /\ reply # None
    /\ reply' = None
    /\ UNCHANGED << recommender, call, result, memo, threads, disk, crop_rec,
                    demand_forecast, status >>

\* the query and the forecast of test_integration.py lines 38-48, made on a
\* 15 June
TestQuery ==
    [current_crop |-> << "P", "a", "d", "d", "y" >>, soil_type |-> << "C", "l", "a", "y", "e", "y" >>,
     temp |-> 30, humidity |-> 60, moisture |-> 45, n |-> 12, p |-> 10, k |-> 20, top_k |-> 5]

TestDay == [year |-> 2024, month |-> 6, day |-> 15]

\* the rotation datasets initialize_models finds
InitFiles == { Some(DatasetA), Some(DatasetB), Some(Without(DatasetA, "Moisture")), NoFile }

\* a process that calls initialize_models and then uses the three objects
NextInit ==
    \/ \E crop_data, demand_data \in BOOLEAN :
          \E crop_scores \in [1 .. 2 -> 0 .. MaxTestScore] :
             \E demand_scores \in [1 .. 2 -> (0 - MaxTestScore) .. MaxTestScore] :
                \E file \in InitFiles :
                   InitializeModels(crop_data, crop_scores, demand_data, demand_scores, file)
    \/ Predict("crop_rec.predict", crop_rec)
    \/ Predict("demand_forecast.predict", demand_forecast)
    \/ ForecastNextMonths(TestDay, 3)
    \/ TakeReply
    \/ status = "returned" /\ reply = None /\ Call(TestQuery) /\ UNCHANGED aux
    \/ RecommendNextCrop /\ UNCHANGED aux
    \/ Return /\ UNCHANGED aux

SpecInit == Init /\ [][NextInit]_vars

\* C21: whenever initialize_models has returned, the model fields of crop_rec
\* and demand_forecast and the soil_data of crop_rotation are not None, and no
\* following predict, forecast_next_months or recommend_next_crop raises the
\* not-loaded ValueError, whether the models were loaded or trained
InitializedModelsAreUsable ==
    status = "returned" =>
        /\ crop_rec # None
        /\ demand_forecast # None
        /\ soil_data # None
        /\ reply # None => reply[1].raised = ""
        /\ result # None => result[1].raised = ""

(***************************************************************************)
(* The HTTP layer of api.py.  A JSON object is a function from its field    *)
(* names; a field that float() or int() is applied to holds None when the   *)
(* conversion raises and Some(number) otherwise.                            *)
(***************************************************************************)
\* api.py lines 44-73: initialize_models() at startup, which trains both
\* models anew, assigns the three globals and returns False when load_data
\* raises
ApiInitializeModels(crop_scores, demand_scores, file) ==
    /\ reply = None
    /\ crop_rec' = SelectBest(CropCandidates(crop_scores), Some(0), None)
    /\ demand_forecast' = SelectBest(DemandCandidates(demand_scores), None, None)
    /\ disk' = [crop |-> Some(crop_rec'), demand |-> Some(demand_forecast')]
    /\ status' = IF LoadCompletes(file) THEN "returned" ELSE "raised"
    /\ LoadData(file)
    /\ UNCHANGED << memo, threads, reply >>

\* what an endpoint answers: the HTTP code, the arguments it called
\* recommend_next_crop with (None when it did not), and what the call gave
Response(op, code, called, outcome) ==
    [op |-> op, raised |-> "", code |-> code, called |-> called, outcome |-> outcome]

\* api.py lines 336-346: the arguments of the call of crop_rotation
RotationArguments(data) ==
    [current_crop |-> Strip(data.current_crop), soil_type |-> Strip(data.soil_type),
     temp |-> data.temperature[1], humidity |-> data.humidity[1],
     moisture |-> data.moisture[1], n |-> data.nitrogen[1], p |-> data.phosphorous[1],
     k |-> data.potassium[1],
     top_k |-> IF "top_k" \in DOMAIN data THEN data.top_k[1] ELSE 5]

\* api.py lines 289-363: the answer of crop_rotation to the JSON object data
CropRotationResponse(data) ==
    IF status = "" THEN Response("crop_rotation", 500, None, None)
    ELSE IF ~({"current_crop", "soil_type", "temperature", "humidity", "moisture",
               "nitrogen", "phosphorous", "potassium"} \subseteq DOMAIN data)
    THEN Response("crop_rotation", 400, None, None)
    ELSE IF \/ \E f \in {"temperature", "humidity", "moisture", "nitrogen", "phosphorous",
                          "potassium"} : data[f] = None
            \/ "top_k" \in DOMAIN data /\ data.top_k = None
    THEN Response("crop_rotation", 400, None, None)
    ELSE IF Strip(data.current_crop) = << >> \/ Strip(data.soil_type) = << >>
    THEN Response("crop_rotation", 400, None, None)
    ELSE IF \/ ~(-10 <= data.temperature[1] /\ data.temperature[1] <= 60)
            \/ ~(0 <= data.humidity[1] /\ data.humidity[1] <= 100)
            \/ ~(0 <= data.moisture[1] /\ data.moisture[1] <= 100)
            \/ ~(0 <= data.nitrogen[1] /\ data.nitrogen[1] <= 200)
            \/ ~(0 <= data.phosphorous[1] /\ data.phosphorous[1] <= 200)
            \/ ~(0 <= data.potassium[1] /\ data.potassium[1] <= 200)
    THEN Response("crop_rotation", 400, None, None)
    ELSE Response("crop_rotation",
                  IF Outcome(RotationArguments(data)).raised = "" THEN 200 ELSE 500,
                  Some(RotationArguments(data)), Some(Outcome(RotationArguments(data))))

\* api.py lines 277-363: the endpoint /api/ml/crop-rotation
CropRotationEndpoint(data) ==
    /\ reply = None
    /\ reply' = Some(CropRotationResponse(data))
    /\ UNCHANGED << recommender, call, result, memo, threads, disk, crop_rec,
                    demand_forecast, status >>

\* api.py lines 387-401: comprehensive_analysis calls crop_rec_model.predict, and
\* the call or a conversion of its arguments raises
PredictionRaises(data) ==
    /\ "soil_data" \in DOMAIN data
    /\ status # ""
    /\ {"N", "P", "K", "temperature", "humidity", "ph", "rainfall"}
           \subseteq DOMAIN data.soil_data
    /\ \/ \E f \in {"N", "P", "K", "temperature", "humidity", "ph", "rainfall"} :
             data.soil_data[f] = None
       \/ crop_rec = None

\* api.py lines 404-409: comprehensive_analysis gets to its call of
\* recommend_next_crop
RotationAsked(data) ==
    /\ {"soil_data", "current_crop"} \subseteq DOMAIN data
    /\ status # ""
    /\ {"temperature", "humidity", "moisture", "soil_type", "N", "P", "K"}
           \subseteq DOMAIN data.soil_data

\* api.py lines 410-419: the arguments of that call; top_k is left to its
\* default
AnalysisArguments(data) ==
    [current_crop |-> data.current_crop, soil_type |-> data.soil_data.soil_type,
     temp |-> data.soil_data.temperature[1], humidity |-> data.soil_data.humidity[1],
     moisture |-> data.soil_data.moisture[1], n |-> data.soil_data.N[1],
     p |-> data.soil_data.P[1], k |-> data.soil_data.K[1], top_k |-> 5]

\* api.py lines 382-445: the answer of comprehensive_analysis; the forecast of
\* lines 422-431 follows the rotation call and raises when the demand model
\* is None
ComprehensiveAnalysisResponse(data) ==
    IF PredictionRaises(data) THEN Response("comprehensive_analysis", 500, None, None)
    ELSE IF ~RotationAsked(data)
    THEN Response("comprehensive_analysis",
                  IF "forecast_data" \in DOMAIN data /\ status # "" /\ demand_forecast = None
                  THEN 500 ELSE 200,
                  None, None)
    ELSE IF \E f \in {"temperature", "humidity", "moisture", "N", "P", "K"} :
               data.soil_data[f] = None
    THEN Response("comprehensive_analysis", 500, None, None)
    ELSE Response("comprehensive_analysis",
                  IF \/ Outcome(AnalysisArguments(data)).raised # ""
                     \/ "forecast_data" \in DOMAIN data /\ demand_forecast = None
                  THEN 500 ELSE 200,
                  Some(AnalysisArguments(data)), Some(Outcome(AnalysisArguments(data))))

\* api.py lines 365-445: the endpoint /api/ml/comprehensive-analysis
ComprehensiveAnalysisEndpoint(data) ==
    /\ reply = None
    /\ reply' = Some(ComprehensiveAnalysisResponse(data))
    /\ UNCHANGED << recommender, call, result, memo, threads, disk, crop_rec,
                    demand_forecast, status >>

\* test_integration.py lines 43-48: the request of the integration test, as
\* the JSON object of the crop-rotation endpoint
RotationRequest ==
    [current_crop |-> TestQuery.current_crop, soil_type |-> TestQuery.soil_type,
     temperature |-> Some(TestQuery.temp), humidity |-> Some(TestQuery.humidity),
     moisture |-> Some(TestQuery.moisture), nitrogen |-> Some(TestQuery.n),
     phosphorous |-> Some(TestQuery.p), potassium |-> Some(TestQuery.k)]

\* the JSON object data with field f set to v
WithField(data, f, v) ==
    [g \in DOMAIN data \cup {f} |-> IF g = f THEN v ELSE data[g]]

\* the JSON object data without its field f
WithoutField(data, f) ==
    [g \in DOMAIN data \ {f} |-> data[g]]

\* the values tried for a field: the ends of its range, their neighbours
\* outside it, and a value float() rejects
Tried(low, high) ==
    {None, Some(low - 1), Some(low), Some(high), Some(high + 1)}

\* the texts tried for a crop or a soil
TriedTexts ==
    {<< >>, << " ", " " >>, << " " >> \o TestQuery.current_crop,
     << "T", "e", "a" >>}

\* api.py lines 282-288: the bodies sent to the crop-rotation endpoint, each
\* differing from the test request in at most one field
RotationRequests ==
    {RotationRequest, WithoutField(RotationRequest, "soil_type")}
      \cup {WithField(RotationRequest, "temperature", v) : v \in Tried(-10, 60)}
      \cup {WithField(RotationRequest, f, v) : f \in {"humidity", "moisture"}, v \in Tried(0, 100)}
      \cup {WithField(RotationRequest, f, v) :
               f \in {"nitrogen", "phosphorous", "potassium"}, v \in Tried(0, 200)}
      \cup {WithField(RotationRequest, f, v) : f \in {"current_crop", "soil_type"}, v \in TriedTexts}
      \cup {WithField(RotationRequest, "top_k", v) : v \in {None, Some(-1), Some(0), Some(2)}}

\* api.py lines 369-381: the soil_data of the test request
AnalysisSoil ==
    [N |-> Some(TestQuery.n), P |-> Some(TestQuery.p), K |-> Some(TestQuery.k),
     temperature |-> Some(TestQuery.temp), humidity |-> Some(TestQuery.humidity),
     ph |-> Some(7), rainfall |-> Some(100), moisture |-> Some(TestQuery.moisture),
     soil_type |-> TestQuery.soil_type]

\* api.py lines 369-381: the bodies sent to the comprehensive-analysis
\* endpoint
AnalysisRequests ==
    {[forecast_data |-> TRUE], [soil_data |-> AnalysisSoil],
     [soil_data |-> WithoutField(AnalysisSoil, "moisture"), current_crop |-> TestQuery.current_crop],
     [soil_data |-> AnalysisSoil, current_crop |-> TestQuery.current_crop, forecast_data |-> TRUE]}
      \cup {[soil_data |-> WithField(AnalysisSoil, "temperature", v), current_crop |-> TestQuery.current_crop] :
               v \in Tried(-10, 60)}
      \cup {[soil_data |-> WithField(AnalysisSoil, f, v), current_crop |-> TestQuery.current_crop] :
               f \in {"humidity", "moisture"}, v \in Tried(0, 100)}
      \cup {[soil_data |-> WithField(AnalysisSoil, f, v), current_crop |-> TestQuery.current_crop] :
               f \in {"N", "P", "K"}, v \in Tried(0, 200)}
      \cup {[soil_data |-> WithField(AnalysisSoil, "soil_type", v), current_crop |-> TestQuery.current_crop] :
               v \in TriedTexts}
      \cup {[soil_data |-> AnalysisSoil, current_crop |-> v] : v \in TriedTexts}

NextHttp ==
    \/ \E crop_scores \in [1 .. 2 -> 0 .. MaxTestScore] :
          \E demand_scores \in [1 .. 2 -> (0 - MaxTestScore) .. MaxTestScore] :
             \E file \in InitFiles : ApiInitializeModels(crop_scores, demand_scores, file)
    \/ \E data \in RotationRequests : CropRotationEndpoint(data)
    \/ \E data \in AnalysisRequests : ComprehensiveAnalysisEndpoint(data)
    \/ TakeReply

SpecHttp == Init /\ [][NextHttp]_vars

\* the conditions the specification names for the arguments of a call
Validated(q) ==
    /\ -10 <= q.temp /\ q.temp <= 60
    /\ 0 <= q.humidity /\ q.humidity <= 100
    /\ 0 <= q.moisture /\ q.moisture <= 100
    /\ 0 <= q.n /\ q.n <= 200
    /\ 0 <= q.p /\ q.p <= 200
    /\ 0 <= q.k /\ q.k <= 200
    /\ Strip(q.current_crop) # << >>
    /\ Strip(q.soil_type) # << >>
    /\ q.top_k >= 0

\* C22: an endpoint of the HTTP layer calls recommend_next_crop only with
\* arguments that passed validation: temperature in [-10, 60], humidity and
\* moisture in [0, 100], each nutrient in [0, 200], the crop and the soil
\* non-empty after stripping, and top_k >= 0; a request that violates one of
\* these is answered without the core being reached.
CoreIsCalledWithValidatedArguments ==
    (reply # None /\ reply[1].op \in {"crop_rotation", "comprehensive_analysis"}
       /\ reply[1].called # None)
      => Validated(reply[1].called[1])

(***************************************************************************)
(* Claims about loads that raise, unknown current crops and the tables'     *)
(* keys.                                                                    *)
(***************************************************************************)
\* C23: load_data builds the tables together: a load that raises part-way
\* leaves the recommender as it was, so a call is answered only when the last
\* load that touched the tables ran to its end, and the three tables it is
\* answered from are the tables of the one stored frame.
AnswersComeFromOneCompleteBuild ==
    Answered =>
        /\ LoadSucceeded
        /\ suit_by_soil = SuitBySoil(soil_data[1])
        /\ DOMAIN bias_by_crop = CropsOf(soil_data[1])
        /\ bands = Bands(soil_data[1])

\* the current crop of the answered query has no entry in bias_by_crop
CurrentBiasUnknown ==
    Answered /\ Normalize(result[1].query.current_crop) \notin DOMAIN bias_by_crop

\* C24: when the normalised current crop has no entry in bias_by_crop the call
\* still returns its list, no candidate's score holds the +0.5 rotation bonus
\* and no reason holds 'Different nutrient requirements', while the same-crop
\* term, the legume bonus, the three environmental terms and the clauses
\* 'Crop rotation benefit' and 'Nitrogen fixing properties' are as for any
\* other query.
UnknownCurrentCropSkipsBiasComparison ==
    CurrentBiasUnknown =>
        \A i \in DOMAIN result[1].value :
            LET c == result[1].value[i].crop
                q == result[1].query
            IN  /\ PyRound(FMulInt(result[1].value[i].score, 10))
                     = Tenths(SameCrop(c, q), -10) + Tenths(LegumeOnLowNitrogen(c, q), 3)
                       + Tenths(TempInBand(c, q), 3) + Tenths(MoistureInBand(c, q), 3)
                       + Tenths(HumidityInBand(c, q), 2)
                /\ result[1].value[i].reason
                     = ExpectedReason(~SameCrop(c, q), FALSE, c \in Legumes)

\* a query for a crop the loaded dataset does not hold was answered with a
\* legume that got its bonus and with candidates of two different biases
UnknownCurrentCropAnswered ==
    /\ CurrentBiasUnknown
    /\ LoadSucceeded
    /\ result[1].query.n < 15
    /\ \E i, j \in DOMAIN result[1].value :
          /\ result[1].value[i].crop \in Legumes
          /\ result[1].value[i].reason = "Crop rotation benefit; Nitrogen fixing properties"
          /\ result[1].value[j].reason = "Crop rotation benefit"
          /\ bias_by_crop[result[1].value[i].crop] # bias_by_crop[result[1].value[j].crop]

\* C27: after a load_data that ran to its end, bias_by_crop and bands have the
\* same keys, and every crop of every soil's candidate list is a key of both:
\* the scorer's reads bias_by_crop.get(cand) and bands.get(cand) never give
\* None for a candidate.
CandidatesHaveBiasAndBand ==
    LoadSucceeded =>
        /\ DOMAIN bias_by_crop = DOMAIN bands
        /\ \A soil \in DOMAIN suit_by_soil :
              \A i \in DOMAIN suit_by_soil[soil] :
                 /\ suit_by_soil[soil][i] \in DOMAIN bias_by_crop \cap DOMAIN bands
                 /\ Get(bias_by_crop, suit_by_soil[soil][i]) # None
                 /\ Get(bands, suit_by_soil[soil][i]) # None

\* three rows gave three crops, each observed once, on two soils
ThreeCropsOnTwoSoilsLoaded ==
    /\ LoadSucceeded
    /\ DOMAIN suit_by_soil = {Silt, Peat}
    /\ DOMAIN bands = {Rye, Oats, Oat}
    /\ suit_by_soil[Silt] = << Oat, Oats >>

\* C28: the label of a row names a nutrient whose value is the greatest of the
\* row's N, P and K, and the row is labelled K_high exactly when K is strictly
\* greater than both N and P.
LabelNamesAMaximum ==
    \A i \in DOMAIN LoadedRows :
        LET r == LoadedRows[i]
            greatest == SetMax({r.Nitrogen, r.Phosphorous, r.Potassium})
        IN  /\ "nutrient_bias" \in DOMAIN r =>
                  /\ r.nutrient_bias = "N_high" => r.Nitrogen = greatest
                  /\ r.nutrient_bias = "P_high" => r.Phosphorous = greatest
                  /\ r.nutrient_bias = "K_high" => r.Potassium = greatest
                  /\ r.nutrient_bias = "K_high" <=>
                        (r.Potassium > r.Nitrogen /\ r.Potassium > r.Phosphorous)

\* one file held a row whose potassium is strictly greatest and a row whose
\* potassium shares the maximum with phosphorous
StrictAndSharedPotassiumLoaded ==
    \E i, j \in DOMAIN LoadedRows :
        /\ LoadedRows[i].nutrient_bias = "K_high"
        /\ LoadedRows[i].Potassium > LoadedRows[i].Phosphorous
        /\ LoadedRows[j].nutrient_bias = "P_high"
        /\ LoadedRows[j].Potassium = LoadedRows[j].Phosphorous
        /\ LoadedRows[j].Potassium > LoadedRows[j].Nitrogen

(***************************************************************************)
(* forecast_next_months on every day of a leap year.                        *)
(***************************************************************************)
MaxMonths == 3

\* line 243: the values of datetime.now(), as dates
ForecastDays ==
    { date \in [year : {2024}, month : 1 .. 12, day : 1 .. 31] :
        date.day <= DaysInMonth(date.year, date.month) }

NextForecast ==
    \/ /\ status = ""
       /\ \E demand_scores \in [1 .. 2 -> (0 - MaxTestScore) .. MaxTestScore] :
             InitializeModels(TRUE, [i \in 1 .. 2 |-> MaxTestScore], TRUE, demand_scores,
                              Some(DatasetA))
    \/ \E months \in -1 .. MaxMonths :
          \E now \in ForecastDays : ForecastNextMonths(now, months)
    \/ TakeReply

SpecForecast == Init /\ [][NextForecast]_vars

\* the year and month that come i calendar months after those of the date
MonthsAfter(now, i) ==
    [year |-> now.year + ((now.month - 1 + i) \div 12),
     month |-> ((now.month - 1 + i) % 12) + 1]

\* C26: forecast_next_months(region, crop, months) returns exactly months
\* forecasts, none when months <= 0, and whatever the current date the i-th
\* forecast is for the calendar month i months after the current one: the
\* (year, month) pairs are distinct, consecutive and start at the month after
\* the current month.
ForecastsAreTheNextCalendarMonths ==
    (reply # None /\ reply[1].op = "forecast_next_months" /\ reply[1].raised = "") =>
        /\ Len(reply[1].value) = IF reply[1].months > 0 THEN reply[1].months ELSE 0
        /\ \A i \in DOMAIN reply[1].value :
              /\ reply[1].value[i] = MonthsAfter(reply[1].now, i)
              /\ \A j \in DOMAIN reply[1].value : i # j => reply[1].value[i] # reply[1].value[j]

(***************************************************************************)
(* Queries about Clayey for each of its crops, with readings inside and     *)
(* outside every band.                                                      *)
(***************************************************************************)
Paddy == << "P", "a", "d", "d", "y" >>

Pulses == << "P", "u", "l", "s", "e", "s" >>

Rice == << "R", "i", "c", "e" >>

\* line 311: the arguments of the calls
PenaltyQueries ==
    [current_crop : {Paddy, Pulses, Rice, << "m", "a", "i", "z", "e" >>},
     soil_type : {TestQuery.soil_type},
     temp : {20, 25, 30, 40}, humidity : {60, 65, 80}, moisture : {45, 52},
     n : {TestQuery.n, 15}, p : {TestQuery.p}, k : {TestQuery.k}, top_k : {-1, 2, 3}]

NextPenalty ==
    \/ \E file \in Files : LoadData(file) /\ UNCHANGED aux
    \/ \E q \in PenaltyQueries : Call(q) /\ UNCHANGED aux
    \/ RecommendNextCrop /\ UNCHANGED aux
    \/ Return /\ UNCHANGED aux

SpecPenalty == Init /\ [][NextPenalty]_vars

\* ten times what the readings of query q add to the score of crop c
EnvOf(c, q) ==
    Tenths(TempInBand(c, q), 3) + Tenths(MoistureInBand(c, q), 3)
    + Tenths(HumidityInBand(c, q), 2)

\* the answer is to the query of the worked example: Clayey with Paddy, Pulses
\* and Rice, biases N_high, P_high and N_high, current crop Paddy, n < 15,
\* top_k = 3 and the same environmental score for the three crops
ExampleAnswered ==
    /\ Answered
    /\ CandidatesOfQuery(result[1].query) = << Paddy, Pulses, Rice >>
    /\ {Paddy, Pulses, Rice} \subseteq DOMAIN bias_by_crop
    /\ bias_by_crop[Paddy] = "N_high"
    /\ bias_by_crop[Pulses] = "P_high"
    /\ bias_by_crop[Rice] = "N_high"
    /\ Normalize(result[1].query.current_crop) = Paddy
    /\ result[1].query.n < 15
    /\ result[1].query.top_k = 3
    /\ EnvOf(Paddy, result[1].query) = EnvOf(Pulses, result[1].query)
    /\ EnvOf(Paddy, result[1].query) = EnvOf(Rice, result[1].query)

\* C25: the candidate that is the current crop is penalised whatever its other
\* bonuses: every other candidate of the soil whose environmental terms sum to
\* at least those of the current-crop candidate has a strictly higher raw
\* score and stands above it in the list; in the worked example the order is
\* Pulses, Rice, Paddy and the reason of Paddy is 'Suitable for soil type'.
CurrentCropRanksBelowItsPeers ==
    /\ Answered =>
          \A i \in DOMAIN result[1].value :
             SameCrop(result[1].value[i].crop, result[1].query) =>
                \A c \in Range(CandidatesOfQuery(result[1].query)) \ {result[1].value[i].crop} :
                   EnvOf(c, result[1].query) >= EnvOf(result[1].value[i].crop, result[1].query) =>
                      \E j \in 1 .. (i - 1) :
                         /\ result[1].value[j].crop = c
                         /\ FLess(result[1].value[i].score, result[1].value[j].score)
    /\ ExampleAnswered =>
          /\ Len(result[1].value) = 3
          /\ result[1].value[1].crop = Pulses
          /\ result[1].value[2].crop = Rice
          /\ result[1].value[3].crop = Paddy
          /\ result[1].value[3].reason = "Suitable for soil type"

\* the worked example was answered with Paddy in the last place, below Rice
\* of the same bias and the same environmental score
ExampleAnsweredWithPaddyLast ==
    /\ ExampleAnswered
    /\ LoadSucceeded
    /\ result[1].value[3].crop = Paddy
    /\ FLess(result[1].value[3].score, result[1].value[2].score)

(***************************************************************************)
(* The same query asked with different top_k.  memo holds what the call     *)
(* before gave, and is emptied when a load changes the tables.              *)
(***************************************************************************)
\* line 311: queries that differ in top_k, about a soil with scores apart and
\* a soil whose seven crops score alike
TopKQueries ==
    { q \in Queries : /\ q.current_crop \in { << "p", "a", "d", "d", "y", " " >>,
                                              << "T", "e", "a" >> }
                      /\ q.soil_type \in { << " ", "c", "l", "a", "y", "e", "y" >>,
                                           << "s", "a", "n", "d", "y", " " >> }
                      /\ q.temp = 25 /\ q.humidity = 60 /\ q.moisture = 45 /\ q.n = 14
                      /\ q.top_k >= 0 }

NextTopK ==
    \/ \E file \in Files :
          /\ LoadData(file)
          /\ memo' = IF recommender' = recommender THEN memo ELSE NoMemo
          /\ UNCHANGED << threads, models >>
    \/ \E q \in TopKQueries : Call(q) /\ UNCHANGED aux
    \/ RecommendNextCrop /\ UNCHANGED aux
    \/ Return /\ memo' = << result[1] >> /\ UNCHANGED << threads, models >>

SpecTopK == Init /\ [][NextTopK]_vars

\* the crop, the raw score and the reason of each entry of the list
Unnormalized(list) ==
    [i \in DOMAIN list |->
        [crop |-> list[i].crop, score |-> list[i].score, reason |-> list[i].reason]]

\* the call before the one of the result was answered from the same tables
\* for the same query with a top_k that is not greater
AskedWithSmallerTopK ==
    /\ Answered
    /\ memo # NoMemo
    /\ memo[1].raised = ""
    /\ [memo[1].query EXCEPT !.top_k = 0] = [result[1].query EXCEPT !.top_k = 0]
    /\ 0 <= memo[1].query.top_k
    /\ memo[1].query.top_k <= result[1].query.top_k

\* C29: from the same tables and for the same query, the (crop, raw score,
\* reason) sequence returned with top_k = j is a prefix of the sequence
\* returned with top_k = j' for all 0 <= j <= j'; the suitability scores may
\* differ.
SmallerTopKGivesPrefix ==
    AskedWithSmallerTopK =>
        /\ Len(memo[1].value) <= Len(result[1].value)
        /\ Unnormalized(memo[1].value)
             = SubSeq(Unnormalized(result[1].value), 1, Len(memo[1].value))

\* a list of two or more entries was followed by a longer one for the same
\* query, in which an entry they share has another suitability score
LongerListRenormalized ==
    /\ AskedWithSmallerTopK
    /\ Len(memo[1].value) >= 2
    /\ Len(result[1].value) > Len(memo[1].value)
    /\ \E i \in DOMAIN memo[1].value :
          memo[1].value[i].suitability_score # result[1].value[i].suitability_score

(***************************************************************************)
(* The raw scores as tenths.                                                *)
(***************************************************************************)
\* ten times the raw score of the entry, to the nearest integer
TenthsOf(entry) == PyRound(FMulInt(entry.score, 10))

\* the float x is within a thousandth of tenths / 10
IsTenths(x, tenths) ==
    /\ FLess(FSub(x, FDec(tenths, 10)), FDec(1, 1000))
    /\ FLess(FSub(FDec(tenths, 10), x), FDec(1, 1000))

\* C30: every raw score is a multiple of 0.1 between -1.0 and 1.6 (the float
\* is the nearest to an integer number of tenths in -10 .. 16), so the
\* near-equal branch is taken exactly when all returned entries have the same
\* raw score, and in the normal branch every entry of the lowest raw score has
\* the suitability score 50.
RawScoresAreTenths ==
    (Answered /\ result[1].value # << >>) =>
        /\ \A i \in DOMAIN result[1].value :
              /\ TenthsOf(result[1].value[i]) \in -10 .. 16
              /\ IsTenths(result[1].value[i].score, TenthsOf(result[1].value[i]))
        /\ NearEqualAnswer <=>
              \A i, j \in DOMAIN result[1].value :
                 TenthsOf(result[1].value[i]) = TenthsOf(result[1].value[j])
        /\ NearEqualAnswer =>
              \A i \in DOMAIN result[1].value :
                 result[1].value[i].suitability_score = IF i <= 5 THEN 110 - 10 * i ELSE 50
        /\ ~NearEqualAnswer =>
              \A i \in DOMAIN result[1].value :
                 (\A j \in DOMAIN result[1].value :
                     TenthsOf(result[1].value[i]) <= TenthsOf(result[1].value[j]))
                   => result[1].value[i].suitability_score = 50

\* a normal-branch answer whose raw scores reach from 1.6 down to a negative
\* score, the last entry on the floor
WidestScoresAnswered ==
    /\ Answered
    /\ Len(result[1].value) >= 3
    /\ ~NearEqualAnswer
    /\ TenthsOf(result[1].value[1]) = 16
    /\ TenthsOf(result[1].value[Len(result[1].value)]) < 0
    /\ result[1].value[Len(result[1].value)].suitability_score = 50

==========================================================================
